---- MODULE Spec2Model ----
(***************************************************************************)
(* A model of mechatyper's search-and-patch engine (src/src/search.rs):    *)
(* the indentation normalizer apply_indentation, the patch applier         *)
(* apply_changes and the item extractor's byte/row arithmetic.             *)
(*                                                                         *)
(* Text is a sequence of characters.  A character is a one-element token;  *)
(* NBSP stands for U+00A0, a whitespace character that is two bytes long   *)
(* in UTF-8, so that Rust's byte-indexed slices and char-counted lengths   *)
(* can disagree as they do in the program.  Carriage returns are not part  *)
(* of the modelled alphabet.                                               *)
(***************************************************************************)
EXTENDS Integers, Sequences, FiniteSets, Bags, TLC

VARIABLES
    \* ---- apply_indentation called on its own (search.rs:164) ----
    old_code,       \* argument old_code
    new_code,       \* argument new_code
    indented,       \* the value returned, Panicked, or NotCalled
    \* ---- apply_changes (search.rs:209) ----
    disk,           \* file name -> file content (a text)
    changes,        \* argument changes: Vec<ItemChange>
    changes_by_file,\* the HashMap built at lines 211-217
    todo,           \* keys of changes_by_file the outer loop has not visited
    file_path,      \* key being processed by the outer loop, or NoFile
    lines,          \* the line buffer of the file being processed
    sorted,         \* the sorted changes of that file not yet iterated
    pc,             \* position of the call
    result,         \* "none" while running, then "Ok", "Err" or "panic"
    \* ---- history (not program state) ----
    disk0,          \* the disk when apply_changes was called
    fresh,          \* the line buffer as freshly read from the current file
    last,           \* what the latest iteration of the inner loop did
    nskipped,       \* number of changes the guard at line 234 has skipped
    nspliced,       \* number of changes spliced
    reads,          \* file name -> number of successful reads
    writes,         \* file name -> number of completed rewrites
    failed,         \* the files a read or a write of which returned an error
    consumed,       \* bag of the (change, file, kind) the inner loop has taken
    source,         \* extraction runs only: the item's node, else NoNode
    \* ---- get_filenames called on its own (search.rs:29) ----
    fs,             \* the directory tree beneath the root
    language,       \* the ProgLanguage whose extensions and exclusions are used
    discovered,     \* the value returned, or NotDiscovered
    \* ---- extract_sexpr_from_string called on its own (search.rs:76) ----
    ex_source,      \* argument source_code
    ex_tree,        \* the nodes of the tree the parser builds for source_code
    ex_item,        \* argument item: the ProgItem asked for
    ex_items,       \* the value returned, or NotExtracted
    \* ---- extract_all_items_from_files (search.rs:152) ----
    files_in,       \* argument files (history: the list as it was passed)
    xa_files,       \* the files the loop has not visited yet
    all_functions,  \* the ItemDefs collected so far
    xa_pc,          \* position of the call: "idle", "loop" or "done"
    xa_result,      \* "none" while running, then "Ok" or "Err"
    outcome,        \* file name -> what opening, reading and parsing it gives
    \* ---- make_change (main.rs:161) ----
    folder,         \* the target folder of the instructions, a path
    git_dirs,       \* the paths p for which p.join(".git") is a directory
    mc_pc,          \* position of the call
    mc_result,      \* "none" while running, then "Ok", "Err" or "panic"
    functions,      \* the ItemDefs extraction returned
    mc_changes,     \* the ItemChanges built so far
    requests,       \* number of transformer requests sent (history)
    \* ---- the lookup of an item's grammar and query (search.rs:84, 141) ----
    rq_lang,        \* the language name of the item asked for
    rq_kind,        \* the kind name of the item asked for
    looked_up,      \* the value returned, or NotLookedUp
    \* ---- main (main.rs:41) ----
    m_pc,           \* position of main
    m_result,       \* "none" while running, then "Ok", "Err" or "panic"
    messages,       \* the chat history
    tries,          \* the counter of the loop at line 74
    future,         \* the future of make_change: "none", or "dropped" unpolled
    turn,           \* number of top-level user messages read (history)
    turn_end,       \* how the latest finished turn ended (history)
    outer_requests, \* requests sent at line 75 in this turn (history)
    inner_requests, \* requests sent at line 110 in this turn (history)
    sent,           \* the messages of the latest request (history)
    \* ---- extract_python_code called on its own (code_cleaning.rs:46) ----
    input,          \* argument input
    extracted_code, \* the value returned, or NotCleaned
    \* ---- process_chat_prompt (llm.rs:18) ----
    llm_pc,         \* position of the call: "idle", "env", "request",
                    \* "reply", "done", "error", "panicked"
    llm_result,     \* None while running, then the text the call returns
    llm_messages,   \* the kinds of the messages pushed after the prompt
    attempt_count,  \* the counter of line 38
    reply_text,     \* the content of the latest reply
    llm_requests    \* number of completion requests sent (history)

vars == <<old_code, new_code, indented, disk, changes, changes_by_file, todo,
          file_path, lines, sorted, pc, result, disk0, fresh, last, nskipped,
          nspliced, reads, writes, failed, consumed, source, fs, language,
          discovered, ex_source, ex_tree, ex_item, ex_items, files_in, xa_files,
          all_functions, xa_pc, xa_result, outcome, folder, git_dirs, mc_pc,
          mc_result,
          functions, mc_changes, requests, rq_lang, rq_kind, looked_up, m_pc,
          m_result, messages, tries, future, turn, turn_end, outer_requests,
          inner_requests, sent, input, extracted_code, llm_pc, llm_result,
          llm_messages, attempt_count, reply_text, llm_requests>>

indent_vars == <<old_code, new_code, indented>>
patch_vars == <<disk, changes, changes_by_file, todo, file_path, lines, sorted,
                pc, result, disk0, fresh, last, nskipped, nspliced, reads,
                writes, failed, source, consumed>>
walk_vars == <<fs, language, discovered>>
extract_vars == <<ex_source, ex_tree, ex_item, ex_items>>
loop_vars == <<files_in, xa_files, all_functions, xa_pc, xa_result, outcome>>
mc_vars == <<folder, git_dirs, mc_pc, mc_result, functions, mc_changes,
             requests>>
\* What the actions of apply_changes leave alone.
registry_vars == <<rq_lang, rq_kind, looked_up>>
main_vars == <<m_pc, m_result, messages, tries, future, turn, turn_end,
               outer_requests, inner_requests, sent>>
code_vars == <<input, extracted_code>>
llm_vars == <<llm_pc, llm_result, llm_messages, attempt_count, reply_text,
              llm_requests>>
\* the variables of the lookup, of the conversation and of the transformer
late_vars == <<registry_vars, main_vars, code_vars, llm_vars>>
\* the variables of the search-and-patch engine and of make_change
engine_vars == <<patch_vars, indent_vars, walk_vars, extract_vars, loop_vars,
                 mc_vars>>
\* what apply_changes leaves alone
idle_vars == <<indent_vars, walk_vars, extract_vars, loop_vars, mc_vars,
               late_vars>>

-----------------------------------------------------------------------------
(* Characters and texts *)

NL == "\n"
SP == " "
TAB == "\t"
NBSP == "nbsp"

\* char::is_whitespace, on the modelled alphabet
is_whitespace(c) == c \in {SP, TAB, NBSP}

\* char::len_utf8, on the modelled alphabet
len_utf8(c) == IF c = NBSP THEN 2 ELSE 1

\* The value that stands for a call that panicked instead of returning.
Panicked == <<"panic!">>
NotCalled == <<"not called">>
\* The same for a call that would have returned a list of lines.
PanickedLines == <<Panicked>>

\* Mutant: the greater of the two.
Min_greatest(a, b) == IF a >= b THEN a ELSE b

\* Iterator::min over two values
Min(a, b) == IF a <= b THEN a ELSE b

RECURSIVE Texts(_, _)
\* All texts over the alphabet cs of at most n characters.
Texts(cs, n) ==
    IF n = 0 THEN {<<>>}
    ELSE LET shorter == Texts(cs, n - 1)
         IN  shorter \cup {Append(t, c) : t \in {u \in shorter : Len(u) = n - 1}, c \in cs}

\* Position of the first NL of s, or 0.
FirstNL(s) ==
    IF \E i \in 1..Len(s) : s[i] = NL
    THEN CHOOSE i \in 1..Len(s) : s[i] = NL /\ \A j \in 1..(i - 1) : s[j] # NL
    ELSE 0

RECURSIVE str_lines(_)
\* str::lines: split at every NL; the final line ending is optional, so a
\* text that ends with NL yields no empty last line.
str_lines(s) ==
    IF s = <<>> THEN <<>>
    ELSE LET i == FirstNL(s)
         IN  IF i = 0 THEN <<s>>
             ELSE <<SubSeq(s, 1, i - 1)>> \o str_lines(SubSeq(s, i + 1, Len(s)))

RECURSIVE join(_, _)
\* [String]::join(sep)
join(ls, sep) ==
    IF ls = <<>> THEN <<>>
    ELSE IF Len(ls) = 1 THEN ls[1]
    ELSE ls[1] \o sep \o join(Tail(ls), sep)

\* line.trim().is_empty()
is_blank(line) == \A i \in 1..Len(line) : is_whitespace(line[i])

\* line.chars().take_while(|c| c.is_whitespace()).count()
leading_count(line) ==
    IF is_blank(line) THEN Len(line)
    ELSE (CHOOSE i \in 1..Len(line) :
              /\ ~is_whitespace(line[i])
              /\ \A j \in 1..(i - 1) : is_whitespace(line[j])) - 1

\* line.chars().take_while(|c| c.is_whitespace()).collect::<String>()
leading_whitespace(line) == SubSeq(line, 1, leading_count(line))

RECURSIVE byte_len(_)
\* str::len: the length in bytes
byte_len(s) == IF s = <<>> THEN 0 ELSE len_utf8(Head(s)) + byte_len(Tail(s))

\* str::is_char_boundary(n)
is_char_boundary(s, n) == \E k \in 0..Len(s) : byte_len(SubSeq(s, 1, k)) = n

\* &s[n..]: the text from byte offset n on; it panics when n is past the end
\* or falls inside a character.
slice_from(s, n) ==
    IF is_char_boundary(s, n)
    THEN LET k == CHOOSE k \in 0..Len(s) : byte_len(SubSeq(s, 1, k)) = n
         IN  SubSeq(s, k + 1, Len(s))
    ELSE Panicked

\* The non-blank lines of a list of lines, in order.
non_blank(ls) == SelectSeq(ls, LAMBDA l : ~is_blank(l))

-----------------------------------------------------------------------------
(* apply_indentation, search.rs:164-207 *)

\* lines 169-178: leading whitespace of old_code's first non-blank line
old_indentation(old) ==
    LET nb == non_blank(str_lines(old))
    IN  IF nb = <<>> THEN <<>> ELSE leading_whitespace(nb[1])

RECURSIVE min_count(_)
min_count(ls) ==
    IF Len(ls) = 1 THEN leading_count(ls[1])
    ELSE Min(leading_count(ls[1]), min_count(Tail(ls)))

\* Mutant: the count of the first non-blank line, not the least count.
new_indentation_count_first(new) ==
    LET nb == non_blank(str_lines(new))
    IN  IF nb = <<>> THEN 0 ELSE leading_count(nb[1])

\* lines 181-186: least number of leading whitespace characters over
\* new_code's non-blank lines
new_indentation_count(new) ==
    LET nb == non_blank(str_lines(new))
    IN  IF nb = <<>> THEN 0 ELSE min_count(nb)

\* lines 191-197: the closure mapped over new_code's lines
indent_line(line, old_ind, count) ==
    IF is_blank(line) THEN line
    ELSE IF slice_from(line, count) = Panicked THEN Panicked
    ELSE old_ind \o slice_from(line, count)

\* lines 189-199: the mapped lines
indented_lines(old, new) ==
    LET ls == str_lines(new)
    IN  [i \in 1..Len(ls) |->
            indent_line(ls[i], old_indentation(old), new_indentation_count(new))]

\* Mutant: a newline is appended whatever the text ends with.
ensure_newline_always(code) == Append(code, NL)

\* lines 202-206: append a newline unless the text already ends with one
ensure_newline(code) ==
    IF code # <<>> /\ code[Len(code)] = NL THEN code ELSE Append(code, NL)

apply_indentation(old, new) ==
    LET mapped == indented_lines(old, new)
    IN  IF \E i \in 1..Len(mapped) : mapped[i] = Panicked
        THEN Panicked
        ELSE ensure_newline(join(mapped, <<NL>>))

-----------------------------------------------------------------------------
(* ItemDef and ItemChange, search.rs:13-27 *)

Files == {"f1", "f2"}
NoFile == "none"

ItemDef(definition, start_pos, end_pos, start_byte, end_byte, filename) ==
    [definition |-> definition, start_pos |-> start_pos, end_pos |-> end_pos,
     start_byte |-> start_byte, end_byte |-> end_byte, filename |-> filename]

ItemChange(before, after) == [before |-> before, after |-> after]

-----------------------------------------------------------------------------
(* apply_changes, search.rs:209-254 *)

\* Mutant: every file named by a change is given all the changes.
group_by_file_all(cs) ==
    [f \in {cs[i].before.filename : i \in 1..Len(cs)} |-> cs]

\* lines 211-217: the changes of each file named by a change, in input order
group_by_file(cs) ==
    [f \in {cs[i].before.filename : i \in 1..Len(cs)} |->
        SelectSeq(cs, LAMBDA c : c.before.filename = f)]

RECURSIVE insert_desc(_, _)
\* c put into the descending list ls after every element whose start_pos is
\* not smaller: equal keys keep their order (Vec::sort_by is stable).
insert_desc(ls, c) ==
    IF ls = <<>> THEN <<c>>
    ELSE IF ls[1].before.start_pos >= c.before.start_pos
         THEN <<ls[1]>> \o insert_desc(Tail(ls), c)
         ELSE <<c>> \o ls

RECURSIVE sort_prefix(_, _)
sort_prefix(cs, n) ==
    IF n = 0 THEN <<>> ELSE insert_desc(sort_prefix(cs, n - 1), cs[n])

\* Mutant: the changes are left in input order.
sort_changes_none(cs) == cs

\* line 227: changes.sort_by(|a, b| b.before.start_pos.cmp(&a.before.start_pos))
sort_changes(cs) == sort_prefix(cs, Len(cs))

\* Mutant: the guard tests the end of the range only.
in_range_end_only(ls, c) == c.before.end_pos < Len(ls)

\* line 234: the guard of a splice, against the buffer as it is now.
\* Rows are 0-based; ls[i + 1] is row i.
in_range(ls, c) ==
    c.before.start_pos <= c.before.end_pos /\ c.before.end_pos < Len(ls)

\* Mutant: the replacement is spliced as given, not re-indented.
replacement_lines_raw(c) == str_lines(c.after)

\* lines 236-241: the replacement lines of a change
replacement_lines(c) ==
    LET indented_new_code == apply_indentation(c.before.definition, c.after)
    IN  IF indented_new_code = Panicked THEN PanickedLines
        ELSE str_lines(indented_new_code)

\* Mutant: the range start_line..end_line, its end excluded.
splice_exclusive(ls, start_line, end_line, repl) ==
    SubSeq(ls, 1, start_line) \o repl \o SubSeq(ls, end_line + 1, Len(ls))

\* line 242: lines.splice(start_line..=end_line, replacement_lines)
splice(ls, start_line, end_line, repl) ==
    SubSeq(ls, 1, start_line) \o repl \o SubSeq(ls, end_line + 2, Len(ls))

\* lines 230-244: one iteration of the inner loop
apply_change(ls, c) ==
    IF in_range(ls, c)
    THEN IF replacement_lines(c) = PanickedLines THEN PanickedLines
         ELSE splice(ls, c.before.start_pos, c.before.end_pos, replacement_lines(c))
    ELSE ls

\* Mutant: the lines are joined, the last left without a line ending.
write_lines_joined(ls) == join(ls, <<NL>>)

RECURSIVE write_lines(_)
\* lines 248-250: writeln!(file, "{}", line) for every line
write_lines(ls) ==
    IF ls = <<>> THEN <<>> ELSE ls[1] \o <<NL>> \o write_lines(Tail(ls))

RECURSIVE apply_all(_, _)
\* lines 230-244: the whole inner loop
apply_all(ls, cs) ==
    IF cs = <<>> THEN ls
    ELSE IF apply_change(ls, cs[1]) = PanickedLines THEN PanickedLines
    ELSE apply_all(apply_change(ls, cs[1]), Tail(cs))

\* lines 222-250: what one file holds after the outer loop's body has run
\* for it with the changes cs, when no I/O fails and nothing panics
patch_file(content, cs) ==
    LET ls == apply_all(str_lines(content), sort_changes(cs))
    IN  IF ls = PanickedLines THEN content ELSE write_lines(ls)

NoChange == [kind |-> "none"]

\* lines 210-217
Group ==
    /\ pc = "start"
    /\ changes_by_file' = group_by_file(changes)
    /\ todo' = DOMAIN group_by_file(changes)
    /\ pc' = "next_file"
    /\ UNCHANGED <<disk, changes, file_path, lines, sorted, result, disk0,
                   fresh, last, nskipped, nspliced, reads, writes, failed,
                   source,
                   consumed>>
    /\ UNCHANGED idle_vars

\* lines 220-227: the outer loop takes the next key, in HashMap order, reads
\* the file and sorts its changes
ReadFile ==
    /\ pc = "next_file"
    /\ \E f \in todo :
        /\ file_path' = f
        /\ lines' = str_lines(disk[f])
        /\ fresh' = str_lines(disk[f])
        /\ sorted' = sort_changes(changes_by_file[f])
        /\ reads' = [reads EXCEPT ![f] = @ + 1]
    /\ last' = NoChange
    /\ pc' = "apply"
    /\ UNCHANGED <<disk, changes, changes_by_file, todo, result, disk0,
                   nskipped, nspliced, writes, failed, source,
                   consumed>>
    /\ UNCHANGED idle_vars

\* Mutant: the error of a read is kept for the caller and the loop goes on
\* with the next file.
ReadFail_continue ==
    /\ pc = "next_file"
    /\ \E f \in todo :
        /\ file_path' = f
        /\ failed' = failed \cup {f}
        /\ todo' = todo \ {f}
    /\ UNCHANGED <<disk, changes, changes_by_file, lines, sorted, pc, result,
                   disk0, fresh, last, nskipped, nspliced, reads, writes, source,
                   consumed>>
    /\ UNCHANGED idle_vars

\* line 222: fs::read_to_string fails and `?` returns the error
ReadFail ==
    /\ pc = "next_file"
    /\ \E f \in todo : file_path' = f /\ failed' = failed \cup {f}
    /\ result' = "Err"
    /\ pc' = "done"
    /\ UNCHANGED <<disk, changes, changes_by_file, todo, lines, sorted, disk0,
                   fresh, last, nskipped, nspliced, reads, writes, source,
                   consumed>>
    /\ UNCHANGED idle_vars

\* lines 230-244: one iteration of the inner loop
ApplyChange ==
    /\ pc = "apply"
    /\ sorted # <<>>
    /\ LET change == sorted[1]
       IN  IF apply_change(lines, change) = PanickedLines
           THEN /\ pc' = "done"
                /\ result' = "panic"
                /\ UNCHANGED <<lines, sorted, last, nskipped, nspliced, consumed>>
           ELSE /\ lines' = apply_change(lines, change)
                /\ sorted' = Tail(sorted)
                /\ last' = [kind |-> IF in_range(lines, change)
                                     THEN "spliced" ELSE "skipped",
                            change |-> change,
                            buffer |-> lines]
                /\ nspliced' = nspliced + (IF in_range(lines, change) THEN 1 ELSE 0)
                /\ nskipped' = nskipped + (IF in_range(lines, change) THEN 0 ELSE 1)
                /\ consumed' = consumed (+) SetToBag({
                        [change |-> change, file |-> file_path,
                         kind |-> IF in_range(lines, change)
                                  THEN "spliced" ELSE "skipped"]})
                /\ UNCHANGED <<pc, result>>
    /\ UNCHANGED <<disk, changes, changes_by_file, todo, file_path, disk0,
                   fresh, reads, writes, failed, source>>
    /\ UNCHANGED idle_vars

\* lines 247-250: File::create truncates the file and every line is written
WriteFile ==
    /\ pc = "apply"
    /\ sorted = <<>>
    /\ disk' = [disk EXCEPT ![file_path] = write_lines(lines)]
    /\ writes' = [writes EXCEPT ![file_path] = @ + 1]
    /\ todo' = todo \ {file_path}
    /\ pc' = "next_file"
    /\ UNCHANGED <<changes, changes_by_file, file_path, lines, sorted, result,
                   disk0, fresh, last, nskipped, nspliced, reads, failed,
                   source,
                   consumed>>
    /\ UNCHANGED idle_vars

\* Mutant: the error of a write is kept for the caller and the loop goes on
\* with the next file.
WriteFail_continue ==
    /\ pc = "apply"
    /\ sorted = <<>>
    /\ \/ UNCHANGED disk
       \/ \E n \in 0..(Len(lines) - 1) :
            disk' = [disk EXCEPT ![file_path] = write_lines(SubSeq(lines, 1, n))]
    /\ failed' = failed \cup {file_path}
    /\ todo' = todo \ {file_path}
    /\ pc' = "next_file"
    /\ UNCHANGED <<changes, changes_by_file, file_path, lines, sorted, result,
                   disk0, fresh, last, nskipped, nspliced, reads, writes, source,
                   consumed>>
    /\ UNCHANGED idle_vars

\* line 247 or 249 fails: File::create fails and leaves the file as it was,
\* or a writeln! fails after the file was truncated and n lines were written
WriteFail ==
    /\ pc = "apply"
    /\ sorted = <<>>
    /\ \/ UNCHANGED disk
       \/ \E n \in 0..(Len(lines) - 1) :
            disk' = [disk EXCEPT ![file_path] = write_lines(SubSeq(lines, 1, n))]
    /\ failed' = failed \cup {file_path}
    /\ result' = "Err"
    /\ pc' = "done"
    /\ UNCHANGED <<changes, changes_by_file, todo, file_path, lines, sorted,
                   disk0, fresh, last, nskipped, nspliced, reads, writes, source,
                   consumed>>
    /\ UNCHANGED idle_vars

\* line 253
Return ==
    /\ pc = "next_file"
    /\ todo = {}
    /\ result' = "Ok"
    /\ pc' = "done"
    /\ UNCHANGED <<disk, changes, changes_by_file, todo, file_path, lines,
                   sorted, disk0, fresh, last, nskipped, nspliced, reads,
                   writes, failed, source, consumed>>
    /\ UNCHANGED idle_vars

-----------------------------------------------------------------------------
(* extract_sexpr_from_string, search.rs:116-134: from a captured node to   *)
(* its ItemDef.  A node is the byte range [start_byte, end_byte) the       *)
(* parser reports for it.                                                  *)

\* &s[a..b]: the characters of s from byte offset a up to byte offset b
byte_slice(s, a, b) ==
    LET first == CHOOSE k \in 0..Len(s) : byte_len(SubSeq(s, 1, k)) = a
        end == CHOOSE k \in 0..Len(s) : byte_len(SubSeq(s, 1, k)) = b
    IN  SubSeq(s, first + 1, end)

\* Mutant: the range starts where the node starts.
line_start_byte_of_node(source_code, start_byte) == start_byte

\* lines 118-121: source_code[..start_byte].rfind('\n').map(|pos| pos + 1)
\* .unwrap_or(0)
line_start_byte(source_code, start_byte) ==
    LET before == byte_slice(source_code, 0, start_byte)
        nls == {i \in 1..Len(before) : before[i] = NL}
    IN  IF nls = {} THEN 0
        ELSE byte_len(SubSeq(before, 1, CHOOSE i \in nls : \A j \in nls : j <= i))

\* Mutant: rows are counted from 1.
row_of_one_based(source_code, byte) ==
    LET before == byte_slice(source_code, 0, byte)
    IN  Cardinality({i \in 1..Len(before) : before[i] = NL}) + 1

\* Node::start_position().row and Node::end_position().row: the number of
\* line endings before the byte
row_of(source_code, byte) ==
    LET before == byte_slice(source_code, 0, byte)
    IN  Cardinality({i \in 1..Len(before) : before[i] = NL})

\* lines 116-134: the ItemDef pushed for a captured node
extract_item(source_code, node, filename) ==
    LET start == line_start_byte(source_code, node.start_byte)
    IN  ItemDef(byte_slice(source_code, start, node.end_byte),
                row_of(source_code, node.start_byte),
                row_of(source_code, node.end_byte),
                start,
                node.end_byte,
                filename)

\* line 86: the nodes a query can capture in source_code: a node starts
\* with the first character of a token and ends with the last character of
\* one, so it neither starts nor ends with whitespace or a line ending.
Nodes(source_code) ==
    { [start_byte |-> a, end_byte |-> b] :
        <<a, b>> \in { <<a, b>> \in (0..byte_len(source_code))
                                    \X (0..byte_len(source_code)) :
            /\ a < b
            /\ is_char_boundary(source_code, a)
            /\ is_char_boundary(source_code, b)
            /\ LET text == byte_slice(source_code, a, b)
               IN  /\ text[1] \notin {SP, TAB, NBSP, NL}
                   /\ text[Len(text)] \notin {SP, TAB, NBSP, NL} } }

-----------------------------------------------------------------------------
(* ProgLanguage, lang.rs:106-127.  A file or directory name is a sequence   *)
(* of characters.                                                          *)

\* lang.rs:114-119
file_extensions(lang) ==
    IF lang = "Python" THEN {<<"p", "y">>} ELSE {<<"r", "s">>}

\* lang.rs:121-126
get_excluded_directories(lang) ==
    IF lang = "Python"
    THEN { <<"s", "i", "t", "e", "-", "p", "a", "c", "k", "a", "g", "e", "s">>,
           <<"v", "e", "n", "v">>,
           <<"_", "_", "p", "y", "c", "a", "c", "h", "e", "_", "_">>,
           <<".", "p", "y", "t", "e", "s", "t", "_", "c", "a", "c", "h", "e">> }
    ELSE { <<"t", "a", "r", "g", "e", "t">>,
           <<".", "c", "a", "r", "g", "o">> }

-----------------------------------------------------------------------------
(* get_filenames, search.rs:29-63.  The tree beneath the root is           *)
(* [root |-> kind, entries |-> list of [name, kind, parent]]: entry i is   *)
(* the path of id i, the root is the path of id 0, and parent is the id of *)
(* the directory the entry is in.  A kind is "file", "dir" or "locked", a  *)
(* directory whose read_dir fails.                                         *)

kind_of(tree, path) == IF path = 0 THEN tree.root ELSE tree.entries[path].kind

\* Path::is_dir
is_dir(tree, path) == kind_of(tree, path) \in {"dir", "locked"}

\* line 36: the entries fs::read_dir(path) yields, in enumeration order
read_dir(tree, path) ==
    SelectSeq([i \in 1..Len(tree.entries) |-> i],
              LAMBDA i : tree.entries[i].parent = path)

NoExtension == <<"/">>

\* Path::extension: the text after the last '.' of the file name; none when
\* the name has no '.' or its only '.' is its first character
extension(name) ==
    LET dots == {i \in 2..Len(name) : name[i] = "."}
    IN  IF dots = {} THEN NoExtension
        ELSE SubSeq(name, (CHOOSE i \in dots : \A j \in dots : j <= i) + 1, Len(name))

\* str::starts_with('.')
starts_with_dot(name) == name # <<>> /\ name[1] = "."

\* Mutant: hidden directories are walked like any other.
is_pruned_not_hidden(tree, path, excluded_dirs) ==
    /\ is_dir(tree, path)
    /\ tree.entries[path].name \in excluded_dirs

\* lines 45-46: the directories the walk does not enter
is_pruned(tree, path, excluded_dirs) ==
    /\ is_dir(tree, path)
    /\ \/ starts_with_dot(tree.entries[path].name)
       \/ tree.entries[path].name \in excluded_dirs

\* lines 53-58
has_extension(name, extensions) ==
    extension(name) # NoExtension /\ extension(name) \in extensions

\* What a call returns: Ok(files) or Err.  opened is not returned: it is the
\* list of the directories read_dir was called on, kept for the properties.
WalkOk(files, opened) == [ok |-> TRUE, files |-> files, opened |-> opened]
WalkErr(opened) == [ok |-> FALSE, files |-> <<>>, opened |-> opened]

\* Mutant: a subdirectory that cannot be read is left out and the walk goes
\* on.
sub_result_best_effort(sub) == WalkOk(sub.files, sub.opened)

\* line 52: the `?` on the result of the recursive call
sub_result(sub) == sub

RECURSIVE get_filenames(_, _, _, _)
RECURSIVE walk_entries(_, _, _, _, _, _)

\* lines 36-60: the loop over the entries still to visit
walk_entries(tree, es, extensions, excluded_dirs, files, opened) ==
    IF es = <<>> THEN WalkOk(files, opened)
    ELSE LET entry_path == es[1]
             rest == Tail(es)
         IN  IF is_pruned(tree, entry_path, excluded_dirs)
             THEN walk_entries(tree, rest, extensions, excluded_dirs, files, opened)
             ELSE IF is_dir(tree, entry_path)
             THEN LET sub == sub_result(get_filenames(tree, entry_path,
                                                      extensions, excluded_dirs))
                  IN  IF sub.ok
                      THEN walk_entries(tree, rest, extensions, excluded_dirs,
                                        files \o sub.files, opened \o sub.opened)
                      ELSE WalkErr(opened \o sub.opened)
             ELSE IF has_extension(tree.entries[entry_path].name, extensions)
             THEN walk_entries(tree, rest, extensions, excluded_dirs,
                               Append(files, entry_path), opened)
             ELSE walk_entries(tree, rest, extensions, excluded_dirs, files, opened)

\* lines 29-63
get_filenames(tree, path, extensions, excluded_dirs) ==
    IF ~is_dir(tree, path) THEN WalkOk(<<>>, <<>>)
    ELSE IF kind_of(tree, path) = "locked" THEN WalkErr(<<path>>)
    ELSE walk_entries(tree, read_dir(tree, path), extensions, excluded_dirs,
                      <<>>, <<path>>)

NotDiscovered == [ok |-> FALSE, files |-> <<>>, opened |-> <<-1>>]

\* get_filenames called on the root with the language's extensions and
\* exclusions, as at main.rs:173-177 and search.rs:70-72
CallGetFilenames ==
    /\ discovered = NotDiscovered
    /\ discovered' = get_filenames(fs, 0, file_extensions(language),
                                   get_excluded_directories(language))
    /\ UNCHANGED <<fs, language>>
    /\ UNCHANGED <<patch_vars, indent_vars, late_vars, extract_vars, loop_vars, mc_vars>>

-----------------------------------------------------------------------------
(* ProgItem and its query pattern, lang.rs:16-33 and 129-143 *)

ProgItem(lang, kind) == [lang |-> lang, kind |-> kind]

\* lang.rs:16-33: the variants of ProgItem
ProgItems ==
    { ProgItem("Python", "Function"), ProgItem("Python", "Class"),
      ProgItem("Rust", "Function"), ProgItem("Rust", "Struct"),
      ProgItem("Rust", "Enum") }

\* A query pattern "(node_kind) @capture".
Pattern(node_kind, capture) == [node_kind |-> node_kind, capture |-> capture]

\* lang.rs:129-143
to_sexpr(it) ==
    IF it.lang = "Python"
    THEN IF it.kind = "Function" THEN Pattern("function_definition", "item")
         ELSE Pattern("class_definition", "item")
    ELSE IF it.kind = "Struct" THEN Pattern("struct_item", "item")
         ELSE IF it.kind = "Enum" THEN Pattern("enum_item", "item")
         ELSE Pattern("function_item", "item")

\* lang.rs:107-112: the grammar of a language
tree_sitter_language(lang) ==
    IF lang = "Python" THEN "tree_sitter_python" ELSE "tree_sitter_rust"

NoItem == ProgItem("none", "none")

\* lang.rs:16-33: a (language name, kind name) pair is made into a ProgItem
\* when it names a variant, and is rejected with an error otherwise.
prog_item_from_any_kind(lang_name, kind_name) ==
    IF lang_name \in {"Python", "Rust"}
    THEN [ok |-> TRUE, item |-> ProgItem(lang_name, kind_name)]
    ELSE [ok |-> FALSE, item |-> NoItem]

prog_item_from(lang_name, kind_name) ==
    IF ProgItem(lang_name, kind_name) \in ProgItems
    THEN [ok |-> TRUE, item |-> ProgItem(lang_name, kind_name)]
    ELSE [ok |-> FALSE, item |-> NoItem]

NoPattern == Pattern("none", "none")

Found(grammar, pattern) ==
    [ok |-> TRUE, grammar |-> grammar, pattern |-> pattern]

NotFound == [ok |-> FALSE, grammar |-> "none", pattern |-> NoPattern]

NotLookedUp == [ok |-> FALSE, grammar |-> "not called", pattern |-> NoPattern]

\* search.rs:84 and 141-145: the grammar and the query pattern the extractor
\* uses for an item, item.clone().into() being the item's language.
lookup(lang_name, kind_name) ==
    LET parsed == prog_item_from(lang_name, kind_name)
    IN  IF parsed.ok
        THEN Found(tree_sitter_language(parsed.item.lang),
                   to_sexpr(parsed.item))
        ELSE NotFound

CallLookup ==
    /\ looked_up = NotLookedUp
    /\ looked_up' = lookup(rq_lang, rq_kind)
    /\ UNCHANGED <<rq_lang, rq_kind>>
    /\ UNCHANGED <<engine_vars, main_vars, code_vars, llm_vars>>

-----------------------------------------------------------------------------
(* extract_sexpr_from_string, search.rs:76-139.  The syntax tree is the    *)
(* list of its nodes in document order, each [kind, start_byte, end_byte]. *)

\* Mutant: every node of the tree is captured, whatever its kind.
query_matches_all(tree, pattern) == tree

\* lines 84-86: the matches of the pattern in the tree, one for each node of
\* the pattern's kind, in document order
query_matches(tree, pattern) ==
    SelectSeq(tree, LAMBDA n : n.kind = pattern.node_kind)

\* lines 89-136: one ItemDef for the capture of every match
extract_sexpr_from_string(src, tree, filename, it) ==
    LET matches == query_matches(tree, to_sexpr(it))
    IN  [k \in 1..Len(matches) |-> extract_item(src, matches[k], filename)]

\* The value that stands for no call: a list no call returns.
NotExtracted == <<ItemDef(<<>>, 0, 0, 0, 0, NoFile)>>

CallExtract ==
    /\ ex_items = NotExtracted
    /\ ex_items' = extract_sexpr_from_string(ex_source, ex_tree, "f1", ex_item)
    /\ UNCHANGED <<ex_source, ex_tree, ex_item>>
    /\ UNCHANGED <<patch_vars, indent_vars, late_vars, walk_vars, loop_vars, mc_vars>>

-----------------------------------------------------------------------------
(* extract_all_items_from_files, search.rs:152-162 *)

\* The files of the runs of extraction and of make_change: f1 holds a class
\* of two methods, f2 a function.
SourceOne == <<"a", NL, SP, "a", NL, SP, "a", NL>>
SourceTwo == <<"a", NL>>
SourceDisk == [f \in Files |-> IF f = "f1" THEN SourceOne ELSE SourceTwo]

\* lines 146-148: the tree parser.parse builds for a source
parse(src) ==
    IF src = SourceOne
    THEN << [kind |-> "class_definition", start_byte |-> 0, end_byte |-> 7],
            [kind |-> "function_definition", start_byte |-> 3, end_byte |-> 4],
            [kind |-> "function_definition", start_byte |-> 6, end_byte |-> 7] >>
    ELSE IF src = SourceTwo
    THEN << [kind |-> "function_definition", start_byte |-> 0, end_byte |-> 1] >>
    ELSE <<>>

\* What the steps of the loop body give for a file: all succeed, or
\* File::open (line 155), read_to_string (157), parse_code (81) or
\* Query::new and the captures (84-114) return an error.
Outcomes == {"ok", "open", "read", "parse", "query"}

\* Mutant: a file that fails is left out and the loop goes on.
ExtractFileFail_skip ==
    /\ xa_pc = "loop"
    /\ xa_files # <<>>
    /\ outcome[Head(xa_files)] # "ok"
    /\ xa_files' = Tail(xa_files)
    /\ UNCHANGED <<files_in, all_functions, xa_pc, xa_result, outcome>>
    /\ UNCHANGED <<patch_vars, indent_vars, late_vars, walk_vars, extract_vars, mc_vars>>

\* lines 155-159 fail: `?` returns the error
ExtractFileFail ==
    /\ xa_pc = "loop"
    /\ xa_files # <<>>
    /\ outcome[Head(xa_files)] # "ok"
    /\ xa_result' = "Err"
    /\ xa_pc' = "done"
    /\ UNCHANGED <<files_in, xa_files, all_functions, outcome>>
    /\ UNCHANGED <<patch_vars, indent_vars, late_vars, walk_vars, extract_vars, mc_vars>>

\* lines 154-160: one iteration of the loop
ExtractFile ==
    /\ xa_pc = "loop"
    /\ xa_files # <<>>
    /\ outcome[Head(xa_files)] = "ok"
    /\ LET file == Head(xa_files)
           src == disk[file]
       IN  all_functions' = all_functions \o
               extract_sexpr_from_string(src, parse(src), file, ex_item)
    /\ xa_files' = Tail(xa_files)
    /\ UNCHANGED <<files_in, xa_pc, xa_result, outcome>>
    /\ UNCHANGED <<patch_vars, indent_vars, late_vars, walk_vars, extract_vars, mc_vars>>

\* line 161
ExtractReturn ==
    /\ xa_pc = "loop"
    /\ xa_files = <<>>
    /\ xa_result' = "Ok"
    /\ xa_pc' = "done"
    /\ UNCHANGED <<files_in, xa_files, all_functions, outcome>>
    /\ UNCHANGED <<patch_vars, indent_vars, late_vars, walk_vars, extract_vars, mc_vars>>

ExtractAllNext == ExtractFile \/ ExtractFileFail \/ ExtractReturn

-----------------------------------------------------------------------------
(* make_change, main.rs:161-225.  The entries 1 and 2 of the tree it walks *)
(* are the files f1 and f2 of the disk.                                    *)

\* entry.path() of a file of the tree, as the name the disk knows it by
path_of(i) == IF i = 1 THEN "f1" ELSE "f2"

\* The texts the transformer replies with.
Replies == { <<"x">>, <<SP, "y", NL>> }

\* Mutant: the changes are applied as soon as one reply is there.
loop_done_first(fns, cs) == Len(cs) >= 1 \/ fns = <<>>

\* line 184: the loop `for function in functions` has visited every item
loop_done(fns, cs) == Len(cs) = Len(fns)

\* A path is [abs, comps]: whether it starts at the root, and its components.
PathOf(abs, comps) == [abs |-> abs, comps |-> comps]

\* PathBuf::pop, main.rs:35: the last component is dropped; false when there
\* is none, the path being the root or empty.
can_pop(path) == path.comps # <<>>
pop(path) == PathOf(path.abs, SubSeq(path.comps, 1, Len(path.comps) - 1))

\* Option: None and Some(value)
None == [found |-> FALSE]
Some(value) == [found |-> TRUE, value |-> value]

\* Mutant: a .git directory anywhere will do.
find_git_directory_anywhere(path) ==
    IF git_dirs # {} THEN Some(CHOOSE p \in git_dirs : TRUE) ELSE None

RECURSIVE find_git_directory(_)
\* main.rs:29-40
find_git_directory(path) ==
    IF path \in git_dirs THEN Some(path)
    ELSE IF ~can_pop(path) THEN None
    ELSE find_git_directory(pop(path))

\* lines 167-171: bail when no .git directory is found
MakeChangeGit ==
    /\ mc_pc = "git"
    /\ IF find_git_directory(folder) # None
       THEN mc_pc' = "discover" /\ UNCHANGED mc_result
       ELSE mc_pc' = "done" /\ mc_result' = "Err"
    /\ UNCHANGED <<folder, git_dirs, functions, mc_changes, requests>>
    /\ UNCHANGED <<patch_vars, indent_vars, late_vars, walk_vars, extract_vars, loop_vars>>

\* lines 173-181: get_filenames(..)?, then extract_all_items_from_files is
\* called on the files found
MakeChangeDiscover ==
    /\ mc_pc = "discover"
    /\ LET found == get_filenames(fs, 0, file_extensions(language),
                                  get_excluded_directories(language))
           paths == [k \in 1..Len(found.files) |-> path_of(found.files[k])]
       IN  /\ discovered' = found
           /\ IF found.ok
              THEN /\ files_in' = paths
                   /\ xa_files' = paths
                   /\ xa_pc' = "loop"
                   /\ mc_pc' = "extract"
                   /\ UNCHANGED mc_result
              ELSE /\ mc_pc' = "done"
                   /\ mc_result' = "Err"
                   /\ UNCHANGED <<files_in, xa_files, xa_pc>>
    /\ UNCHANGED <<fs, language, all_functions, xa_result, outcome>>
    /\ UNCHANGED <<folder, git_dirs, functions, mc_changes, requests>>
    /\ UNCHANGED <<patch_vars, indent_vars, late_vars, extract_vars>>

\* lines 178-183: the `?` on the result of extraction
MakeChangeExtracted ==
    /\ mc_pc = "extract"
    /\ xa_pc = "done"
    /\ IF xa_result = "Ok"
       THEN /\ functions' = all_functions
            /\ mc_pc' = "transform"
            /\ UNCHANGED mc_result
       ELSE /\ mc_pc' = "done"
            /\ mc_result' = "Err"
            /\ UNCHANGED functions
    /\ UNCHANGED <<folder, git_dirs, mc_changes, requests>>
    /\ UNCHANGED <<patch_vars, indent_vars, late_vars, walk_vars, extract_vars, loop_vars>>

\* lines 184-202: the prompt of the next item is sent and the reply awaited
SendRequest ==
    /\ mc_pc = "transform"
    /\ ~loop_done(functions, mc_changes)
    /\ requests' = requests + 1
    /\ mc_pc' = "await"
    /\ UNCHANGED <<folder, git_dirs, mc_result, functions, mc_changes>>
    /\ UNCHANGED <<patch_vars, indent_vars, late_vars, walk_vars, extract_vars, loop_vars>>

\* lines 203-215: the reply's text becomes the after text of the item
ReceiveReply ==
    /\ mc_pc = "await"
    /\ \E reply \in Replies :
         mc_changes' = Append(mc_changes,
                              ItemChange(functions[Len(mc_changes) + 1], reply))
    /\ mc_pc' = "transform"
    /\ UNCHANGED <<folder, git_dirs, mc_result, functions, requests>>
    /\ UNCHANGED <<patch_vars, indent_vars, late_vars, walk_vars, extract_vars, loop_vars>>

\* line 202: the request returns an error and `?` returns it
RequestFail ==
    /\ mc_pc = "await"
    /\ mc_pc' = "done"
    /\ mc_result' = "Err"
    /\ UNCHANGED <<folder, git_dirs, functions, mc_changes, requests>>
    /\ UNCHANGED <<patch_vars, indent_vars, late_vars, walk_vars, extract_vars, loop_vars>>

\* lines 203-210: the reply has no choice or no content and unwrap panics
ReplyPanic ==
    /\ mc_pc = "await"
    /\ mc_pc' = "done"
    /\ mc_result' = "panic"
    /\ UNCHANGED <<folder, git_dirs, functions, mc_changes, requests>>
    /\ UNCHANGED <<patch_vars, indent_vars, late_vars, walk_vars, extract_vars, loop_vars>>

\* line 222: apply_changes is called with the changes built
MakeChangeApply ==
    /\ mc_pc = "transform"
    /\ loop_done(functions, mc_changes)
    /\ pc = "idle"
    /\ changes' = mc_changes
    /\ pc' = "start"
    /\ mc_pc' = "apply"
    /\ UNCHANGED <<disk, changes_by_file, todo, file_path, lines, sorted, result,
                   disk0, fresh, last, nskipped, nspliced, reads, writes, failed,
                   source,
                   consumed>>
    /\ UNCHANGED <<folder, git_dirs, mc_result, functions, mc_changes, requests>>
    /\ UNCHANGED <<indent_vars, late_vars, walk_vars, extract_vars, loop_vars>>

\* lines 222-224: the result of apply_changes is the result of make_change
MakeChangeReturn ==
    /\ mc_pc = "apply"
    /\ pc = "done"
    /\ mc_pc' = "done"
    /\ mc_result' = result
    /\ UNCHANGED <<folder, git_dirs, functions, mc_changes, requests>>
    /\ UNCHANGED <<patch_vars, indent_vars, late_vars, walk_vars, extract_vars, loop_vars>>

-----------------------------------------------------------------------------
(* main, main.rs:41-159.  A message of the chat history is [role, kind,    *)
(* turn]: who it is from, what it is (the system prompt, a top-level user  *)
(* message, a clarification typed by the user, the correction request      *)
(* built by chatgpt_wrong_answer) and the turn in which it was pushed.  A  *)
(* reply is told by what serde_json::from_str makes of it.                 *)

\* Most top-level user messages in one run of main.
MaxTurns == 2
\* Most requests in one turn from each of the two loops.
MaxRequests == 4

Message(role, kind, of_turn) == [role |-> role, kind |-> kind, turn |-> of_turn]

\* lines 49-54
SystemMessage == Message("System", "system_prompt", 0)

\* Mutant: the history is kept for the next turn.
reset_history_kept(ms) == ms

\* lines 151-157: messages = vec![system prompt]
reset_history(ms) == <<SystemMessage>>

\* line 74: while tries < 3
tries_left(n) == n < 3

\* lines 56-71: the prompt is shown, a line is read and pushed, tries = 0
ReadUserMessage ==
    /\ m_pc = "prompt"
    /\ turn < MaxTurns
    /\ turn' = turn + 1
    /\ messages' = Append(messages, Message("User", "user_message", turn + 1))
    /\ tries' = 0
    /\ outer_requests' = 0
    /\ inner_requests' = 0
    /\ m_pc' = "while"
    /\ UNCHANGED <<m_result, future, turn_end, sent>>
    /\ UNCHANGED <<engine_vars, registry_vars, code_vars, llm_vars>>

\* lines 74-77: the loop condition holds and the history is sent
MainRequest ==
    /\ m_pc = "while"
    /\ tries_left(tries)
    /\ outer_requests < MaxRequests
    /\ sent' = messages
    /\ outer_requests' = outer_requests + 1
    /\ m_pc' = "await"
    /\ UNCHANGED <<m_result, messages, tries, future, turn, turn_end,
                   inner_requests>>
    /\ UNCHANGED <<engine_vars, registry_vars, code_vars, llm_vars>>

\* lines 74 and 151-157: the loop condition fails, the history is reset
TriesExhausted ==
    /\ m_pc = "while"
    /\ ~tries_left(tries)
    /\ messages' = reset_history(messages)
    /\ turn_end' = "tries"
    /\ m_pc' = "prompt"
    /\ UNCHANGED <<m_result, tries, future, turn, outer_requests,
                   inner_requests, sent>>
    /\ UNCHANGED <<engine_vars, registry_vars, code_vars, llm_vars>>

\* line 77 or 112: the request returns an error and `?` returns it from main
MainRequestFail ==
    /\ m_pc \in {"await", "clarify_await"}
    /\ m_pc' = "exited"
    /\ m_result' = "Err"
    /\ UNCHANGED <<messages, tries, future, turn, turn_end, outer_requests,
                   inner_requests, sent>>
    /\ UNCHANGED <<engine_vars, registry_vars, code_vars, llm_vars>>

\* line 80 or 115: the first choice has no content and unwrap panics
ContentPanic ==
    /\ m_pc \in {"await", "clarify_await"}
    /\ m_pc' = "exited"
    /\ m_result' = "panic"
    /\ UNCHANGED <<messages, tries, future, turn, turn_end, outer_requests,
                   inner_requests, sent>>
    /\ UNCHANGED <<engine_vars, registry_vars, code_vars, llm_vars>>

\* line 79: the reply has no choice; the body is skipped, tries is as it was
NoChoice ==
    /\ m_pc = "await"
    /\ m_pc' = "while"
    /\ UNCHANGED <<m_result, messages, tries, future, turn, turn_end,
                   outer_requests, inner_requests, sent>>
    /\ UNCHANGED <<engine_vars, registry_vars, code_vars, llm_vars>>

\* lines 84-88 and 151-157: the reply is GoodInstructions.  make_change is an
\* async fn: the call at line 86 builds its future, which is not awaited and
\* is dropped at the end of the statement, its body never polled.
ReplyGoodInstructions ==
    /\ m_pc = "await"
    /\ future' = "dropped"
    /\ messages' = reset_history(messages)
    /\ turn_end' = "good"
    /\ m_pc' = "prompt"
    /\ UNCHANGED <<m_result, tries, turn, outer_requests, inner_requests, sent>>
    /\ UNCHANGED <<engine_vars, registry_vars, code_vars, llm_vars>>

\* lines 89-92 or 128-131, and 151-157: the reply is UserError or
\* TooManyTries; the answer is printed and the loop left
ReplyUserError ==
    /\ m_pc = "await"
    /\ messages' = reset_history(messages)
    /\ turn_end' = "answered"
    /\ m_pc' = "prompt"
    /\ UNCHANGED <<m_result, tries, future, turn, outer_requests,
                   inner_requests, sent>>
    /\ UNCHANGED <<engine_vars, registry_vars, code_vars, llm_vars>>

\* lines 125-127: the reply is Quit
ReplyQuit ==
    /\ m_pc = "await"
    /\ m_pc' = "exited"
    /\ m_result' = "Ok"
    /\ UNCHANGED <<messages, tries, future, turn, turn_end, outer_requests,
                   inner_requests, sent>>
    /\ UNCHANGED <<engine_vars, registry_vars, code_vars, llm_vars>>

\* lines 132-146: the reply does not parse; the correction request is pushed
\* and tries incremented
ReplyUnparsable ==
    /\ m_pc = "await"
    /\ messages' = Append(messages, Message("User", "correction", turn))
    /\ tries' = tries + 1
    /\ m_pc' = "while"
    /\ UNCHANGED <<m_result, future, turn, turn_end, outer_requests,
                   inner_requests, sent>>
    /\ UNCHANGED <<engine_vars, registry_vars, code_vars, llm_vars>>

\* lines 93-95: the reply is ClarificationNeeded; the inner loop is entered
ReplyClarificationNeeded ==
    /\ m_pc = "await"
    /\ m_pc' = "clarify"
    /\ UNCHANGED <<m_result, messages, tries, future, turn, turn_end,
                   outer_requests, inner_requests, sent>>
    /\ UNCHANGED <<engine_vars, registry_vars, code_vars, llm_vars>>

\* lines 96-112: the question is printed, the user's line read and pushed,
\* and the history sent
ClarifyRequest ==
    /\ m_pc = "clarify"
    /\ inner_requests < MaxRequests
    /\ messages' = Append(messages, Message("User", "clarification", turn))
    /\ sent' = Append(messages, Message("User", "clarification", turn))
    /\ inner_requests' = inner_requests + 1
    /\ m_pc' = "clarify_await"
    /\ UNCHANGED <<m_result, tries, future, turn, turn_end, outer_requests>>
    /\ UNCHANGED <<engine_vars, registry_vars, code_vars, llm_vars>>

\* lines 114-119: the reply is ClarificationNeeded again, or has no choice;
\* the inner loop goes round
ClarifyAgain ==
    /\ m_pc = "clarify_await"
    /\ m_pc' = "clarify"
    /\ UNCHANGED <<m_result, messages, tries, future, turn, turn_end,
                   outer_requests, inner_requests, sent>>
    /\ UNCHANGED <<engine_vars, registry_vars, code_vars, llm_vars>>

\* line 120: any other reply breaks the inner loop; the body of the outer
\* loop ends, tries as it was
ClarifyEnd ==
    /\ m_pc = "clarify_await"
    /\ m_pc' = "while"
    /\ UNCHANGED <<m_result, messages, tries, future, turn, turn_end,
                   outer_requests, inner_requests, sent>>
    /\ UNCHANGED <<engine_vars, registry_vars, code_vars, llm_vars>>

\* lines 59, 61, 99 and 101: writing the prompt or reading the line fails
InputFail ==
    /\ m_pc \in {"prompt", "clarify"}
    /\ m_pc' = "exited"
    /\ m_result' = "Err"
    /\ UNCHANGED <<messages, tries, future, turn, turn_end, outer_requests,
                   inner_requests, sent>>
    /\ UNCHANGED <<engine_vars, registry_vars, code_vars, llm_vars>>

MainNext ==
    \/ ReadUserMessage
    \/ MainRequest
    \/ TriesExhausted
    \/ MainRequestFail
    \/ ContentPanic
    \/ NoChoice
    \/ ReplyGoodInstructions
    \/ ReplyUserError
    \/ ReplyQuit
    \/ ReplyUnparsable
    \/ ReplyClarificationNeeded
    \/ ClarifyRequest
    \/ ClarifyAgain
    \/ ClarifyEnd
    \/ InputFail

-----------------------------------------------------------------------------
(* extract_python_code, code_cleaning.rs:46-70.  FENCE stands for the      *)
(* three backticks and PY for the word python, each one token of a text.   *)

FENCE == "fence"
PY == "python"

\* str::starts_with
starts_with(s, prefix) ==
    Len(prefix) <= Len(s) /\ SubSeq(s, 1, Len(prefix)) = prefix

\* Mutant: the line is taken as it is.
trim_start_none(line) == line

\* str::trim_start
trim_start(line) == SubSeq(line, leading_count(line) + 1, Len(line))

RECURSIVE scan_lines(_, _, _)
\* lines 51-63: the loop over the lines, from the state (in_python_code_block,
\* python_code) on; the value of python_code when the loop is left
scan_lines(ls, in_python_code_block, python_code) ==
    IF ls = <<>> THEN python_code
    ELSE IF starts_with(trim_start(ls[1]), <<FENCE, PY>>)
         THEN scan_lines(Tail(ls), TRUE, python_code)
    ELSE IF starts_with(trim_start(ls[1]), <<FENCE>>)
         THEN IF in_python_code_block THEN python_code
              ELSE scan_lines(Tail(ls), in_python_code_block, python_code)
    ELSE IF in_python_code_block
         THEN scan_lines(Tail(ls), in_python_code_block,
                         python_code \o ls[1] \o <<NL>>)
    ELSE scan_lines(Tail(ls), in_python_code_block, python_code)

extract_python_code(text) ==
    LET python_code == scan_lines(str_lines(text), FALSE, <<>>)
    IN  IF python_code # <<>> THEN Some(python_code) ELSE None

NotCleaned == [found |-> FALSE, called |-> FALSE]

CallExtractPythonCode ==
    /\ extracted_code = NotCleaned
    /\ extracted_code' = extract_python_code(input)
    /\ UNCHANGED input
    /\ UNCHANGED <<engine_vars, registry_vars, main_vars, llm_vars>>

-----------------------------------------------------------------------------
(* process_chat_prompt (llm.rs:18-82) *)

\* let max_attempts = 3;
max_attempts == 3

\* Most completion requests of one call the model follows.
MaxLlmRequests == 5

\* The argument default_output.
default_output == <<"d">>

\* str::trim: the text without its leading and trailing whitespace, line
\* endings included.
trim(s) ==
    LET ws(c) == is_whitespace(c) \/ c = NL
        inner == {i \in 1..Len(s) : ~ws(s[i])}
    IN  IF inner = {} THEN <<>>
        ELSE SubSeq(s, CHOOSE i \in inner : \A j \in inner : i <= j,
                       CHOOSE i \in inner : \A j \in inner : j <= i)

\* The contents a reply may have: code, code in a fenced block, the same
\* with whitespace around it, prose, a block of another language, an empty
\* block, nothing.
ReplyContents ==
    { <<"a">>,
      <<FENCE, PY, NL, "a", NL, FENCE>>,
      <<SP, FENCE, PY, NL, "b", NL, FENCE, NL>>,
      <<"x", NL, FENCE, PY, NL, "a", NL, FENCE, NL, "x">>,
      <<"x">>,
      <<FENCE, NL, "a", NL, FENCE>>,
      <<FENCE, PY, NL, FENCE>>,
      <<>> }

\* attempt_count < max_attempts (lines 57 and 68)
attempts_left_always(n) == TRUE

attempts_left(n) == n < max_attempts

\* load_env_variables() (line 22): dotenv() and OPENAI_KEY are there.
LoadEnv ==
    /\ llm_pc = "env"
    /\ llm_pc' = "request"
    /\ UNCHANGED <<llm_result, llm_messages, attempt_count, reply_text, llm_requests>>
    /\ UNCHANGED <<engine_vars, registry_vars, main_vars, code_vars>>

\* load_env_variables() (lines 14-15): one of the two expect calls panics.
LoadEnvPanic ==
    /\ llm_pc = "env"
    /\ llm_pc' = "panicked"
    /\ UNCHANGED <<llm_result, llm_messages, attempt_count, reply_text, llm_requests>>
    /\ UNCHANGED <<engine_vars, registry_vars, main_vars, code_vars>>

\* Lines 42-47: the request returns a reply whose first choice has a
\* content, which is trimmed.
LlmRequest ==
    /\ llm_pc = "request"
    /\ llm_requests < MaxLlmRequests
    /\ \E c \in ReplyContents : reply_text' = trim(c)
    /\ llm_requests' = llm_requests + 1
    /\ llm_pc' = "reply"
    /\ UNCHANGED <<llm_result, llm_messages, attempt_count>>
    /\ UNCHANGED <<engine_vars, registry_vars, main_vars, code_vars>>

\* Lines 42-44: the request fails and ? returns the error.
LlmRequestFail ==
    /\ llm_pc = "request"
    /\ llm_requests < MaxLlmRequests
    /\ llm_requests' = llm_requests + 1
    /\ llm_pc' = "error"
    /\ UNCHANGED <<llm_result, llm_messages, attempt_count, reply_text>>
    /\ UNCHANGED <<engine_vars, registry_vars, main_vars, code_vars>>

\* Lines 46-47: the reply has no choice, or its message no content, and
\* unwrap panics.
LlmReplyPanic ==
    /\ llm_pc = "request"
    /\ llm_requests < MaxLlmRequests
    /\ llm_requests' = llm_requests + 1
    /\ llm_pc' = "panicked"
    /\ UNCHANGED <<llm_result, llm_messages, attempt_count, reply_text>>
    /\ UNCHANGED <<engine_vars, registry_vars, main_vars, code_vars>>

\* Lines 51-52: the parser gives a tree for the content.
ContentParsed ==
    /\ llm_pc = "reply"
    /\ llm_result' = Some(reply_text)
    /\ llm_pc' = "done"
    /\ UNCHANGED <<llm_messages, attempt_count, reply_text, llm_requests>>
    /\ UNCHANGED <<engine_vars, registry_vars, main_vars, code_vars>>

\* Lines 53-56: no tree for the content, a block is extracted and the
\* parser gives a tree for it.
BlockParsed ==
    /\ llm_pc = "reply"
    /\ extract_python_code(reply_text) # None
    /\ llm_result' = Some(extract_python_code(reply_text).value)
    /\ llm_pc' = "done"
    /\ UNCHANGED <<llm_messages, attempt_count, reply_text, llm_requests>>
    /\ UNCHANGED <<engine_vars, registry_vars, main_vars, code_vars>>

\* Lines 57-66: no tree for the content nor for the extracted block.
BlockNotParsed ==
    /\ llm_pc = "reply"
    /\ extract_python_code(reply_text) # None
    /\ IF attempts_left(attempt_count)
       THEN /\ llm_messages' = Append(llm_messages, "Please fix the Python code.")
            /\ attempt_count' = attempt_count + 1
            /\ llm_pc' = "request"
            /\ UNCHANGED llm_result
       ELSE /\ llm_result' = Some(default_output)
            /\ llm_pc' = "done"
            /\ UNCHANGED <<llm_messages, attempt_count>>
    /\ UNCHANGED <<reply_text, llm_requests>>
    /\ UNCHANGED <<engine_vars, registry_vars, main_vars, code_vars>>

\* Lines 68-78: no tree for the content and no block in it.
NoBlock ==
    /\ llm_pc = "reply"
    /\ extract_python_code(reply_text) = None
    /\ IF attempts_left(attempt_count)
       THEN /\ llm_messages' = Append(llm_messages, "Please provide Python code.")
            /\ attempt_count' = attempt_count + 1
            /\ llm_pc' = "request"
            /\ UNCHANGED llm_result
       ELSE /\ llm_result' = Some(default_output)
            /\ llm_pc' = "done"
            /\ UNCHANGED <<llm_messages, attempt_count>>
    /\ UNCHANGED <<reply_text, llm_requests>>
    /\ UNCHANGED <<engine_vars, registry_vars, main_vars, code_vars>>

LlmNext ==
    \/ LoadEnv
    \/ LoadEnvPanic
    \/ LlmRequest
    \/ LlmRequestFail
    \/ LlmReplyPanic
    \/ ContentParsed
    \/ BlockParsed
    \/ BlockNotParsed
    \/ NoBlock

-----------------------------------------------------------------------------
(* apply_indentation called on its own *)

CallApplyIndentation ==
    /\ indented = NotCalled
    /\ indented' = apply_indentation(old_code, new_code)
    /\ UNCHANGED <<old_code, new_code>>
    /\ UNCHANGED <<patch_vars, walk_vars, extract_vars, loop_vars, mc_vars,
                   late_vars>>

-----------------------------------------------------------------------------
(* Inputs *)

\* Longest replacement text given to apply_indentation on its own.
MaxNewLen == 6
\* Most lines of the file that apply_changes patches; rows run to one past it.
MaxFileLines == 2
\* Most changes in one call of apply_changes.
MaxChanges == 2
\* Longest source file an item is extracted from.
MaxSrcLen == 5

Chars == {"a", SP, TAB, NBSP, NL}

\* Original item texts: no indentation, space, tab, a blank first line,
\* nothing but blank lines, nothing at all.
OldCodes ==
    { <<"a">>,
      <<SP, "a", NL, SP, SP, "a", NL>>,
      <<TAB, "a", NL>>,
      <<NL, SP, TAB, "a">>,
      <<SP, NL>>,
      <<>> }

NoNode == [start_byte |-> 0, end_byte |-> 0]

IdlePatch ==
    /\ disk = [f \in Files |-> <<>>]
    /\ changes = <<>>
    /\ changes_by_file = <<>>
    /\ todo = {}
    /\ file_path = NoFile
    /\ lines = <<>>
    /\ sorted = <<>>
    /\ pc = "idle"
    /\ result = "none"
    /\ disk0 = disk
    /\ fresh = <<>>
    /\ last = NoChange
    /\ nskipped = 0
    /\ nspliced = 0
    /\ reads = [f \in Files |-> 0]
    /\ writes = [f \in Files |-> 0]
    /\ failed = {}
    /\ consumed = EmptyBag
    /\ source = NoNode

IdleIndent ==
    /\ old_code = <<>>
    /\ new_code = <<>>
    /\ indented = NotCalled

\* The state in which apply_changes(cs) is called on the disk d.
Called(d, cs) ==
    /\ disk = d
    /\ changes = cs
    /\ changes_by_file = <<>>
    /\ todo = {}
    /\ file_path = NoFile
    /\ lines = <<>>
    /\ sorted = <<>>
    /\ pc = "start"
    /\ result = "none"
    /\ disk0 = d
    /\ fresh = <<>>
    /\ last = NoChange
    /\ nskipped = 0
    /\ nspliced = 0
    /\ reads = [f \in Files |-> 0]
    /\ writes = [f \in Files |-> 0]
    /\ failed = {}
    /\ consumed = EmptyBag

\* Row i of a generated file: a line of its own, so that a line is told
\* from every other.
file_line(i) == <<ToString(i)>>

\* The contents of f1: up to MaxFileLines distinct lines, each with its line
\* ending.
FileContents ==
    { write_lines([i \in 1..n |-> file_line(i - 1)]) : n \in 0..MaxFileLines }

\* (before.definition, after) of a change: one replacement line with no
\* indentation to restore; two replacement lines, the second deeper, with a
\* space to restore.
Edits ==
    { <<<<"a">>, <<"x">>>>,
      <<<<SP, "a">>, <<"y", NL, SP, "z", NL>>>> }

\* (start_pos, end_pos) of a change to f1: every range of rows up to one
\* past the longest file, so that ranges overlap, nest and are out of
\* bounds, and the ranges reversed by one row.
Positions ==
    { <<s, t>> \in (0..MaxFileLines) \X (0..MaxFileLines) : s <= t + 1 }

F1Changes ==
    { ItemChange(ItemDef(e[1], p[1], p[2], 0, 0, "f1"), e[2]) :
        p \in Positions, e \in Edits }

\* f2 holds a single line without a line ending.  The changes to it: one
\* that replaces the line, one whose replacement is indented with NBSP and
\* one that names the row past the line.
F2Content == <<"b">>
F2Changes ==
    { ItemChange(ItemDef(<<"b">>, 0, 0, 0, 1, "f2"), <<"w", NL>>),
      ItemChange(ItemDef(<<"b">>, 0, 0, 0, 1, "f2"), <<NBSP, "w">>),
      ItemChange(ItemDef(<<"b">>, 1, 1, 0, 1, "f2"), <<"w", NL>>) }

RECURSIVE Lists(_, _)
\* All lists of at most n elements of S.
Lists(S, n) ==
    IF n = 0 THEN {<<>>}
    ELSE LET shorter == Lists(S, n - 1)
         IN  shorter \cup {Append(l, x) : l \in {u \in shorter : Len(u) = n - 1}, x \in S}

\* Most nodes of the syntax tree of the example source.
MaxNodes == 3

SrcChars == {"a", SP, NBSP, NL}

\* The kinds of node of the trees: the two that Python items ask for and one
\* that no item asks for.
NodeKinds == {"function_definition", "class_definition", "block"}

KindNode(kind, n) ==
    [kind |-> kind, start_byte |-> n.start_byte, end_byte |-> n.end_byte]

\* A source of three lines and four tokens, on which trees of several nodes
\* are built.
ExampleSource == <<"a", SP, "a", NL, SP, "a", NL, "a">>

\* n comes after m in document order: it starts later, or it starts with m
\* and is inside m.
After(m, n) ==
    \/ m.start_byte < n.start_byte
    \/ m.start_byte = n.start_byte /\ n.end_byte < m.end_byte

\* The two nodes are one inside the other or apart, as nodes of a tree are.
Nested(m, n) ==
    \/ m.end_byte <= n.start_byte
    \/ n.end_byte <= m.start_byte
    \/ m.start_byte <= n.start_byte /\ n.end_byte <= m.end_byte
    \/ n.start_byte <= m.start_byte /\ m.end_byte <= n.end_byte

RECURSIVE NodeLists(_, _)
\* The trees of at most n nodes over src, each a list in document order.
NodeLists(src, n) ==
    IF n = 0 THEN {<<>>}
    ELSE LET shorter == NodeLists(src, n - 1)
         IN  shorter \cup
             { Append(t[1], KindNode(t[2], t[3])) :
                 t \in { t \in {u \in shorter : Len(u) = n - 1}
                               \X NodeKinds \X Nodes(src) :
                           /\ \A i \in 1..Len(t[1]) : Nested(t[1][i], t[3])
                           /\ t[1] # <<>> => After(t[1][Len(t[1])], t[3]) } }

IdleExtract ==
    /\ ex_source = <<>>
    /\ ex_tree = <<>>
    /\ ex_item = ProgItem("Python", "Function")
    /\ ex_items = NotExtracted

\* Most entries beneath the root of a walked tree.
MaxEntries == 3

\* The names of the entries of a walked tree, in the order a directory
\* lists them.
EntryNames ==
    << <<"a", ".", "p", "y">>,
       <<"a", ".", "P", "Y">>,
       <<".", "p", "y">>,
       <<"a", ".", "r", "s">>,
       <<"v", "e", "n", "v">>,
       <<".", "g", "i", "t">>,
       <<"s", "r", "c">> >>

EntryKinds == {"file", "dir", "locked"}

NameIndex(name) == CHOOSE k \in 1..Len(EntryNames) : EntryNames[k] = name

RECURSIVE EntryLists(_)
\* The lists of at most n entries that are trees: an entry is in the root or
\* in a directory listed before it, the entries of one directory are
\* listed together and no two of them have the same name.
EntryLists(n) ==
    IF n = 0 THEN {<<>>}
    ELSE LET shorter == EntryLists(n - 1)
         IN  shorter \cup
             { Append(es, [name |-> EntryNames[k], kind |-> kd, parent |-> up]) :
                 <<es, k, kd, up>> \in
                   { <<es, k, kd, up>> \in
                        {u \in shorter : Len(u) = n - 1}
                        \X (1..Len(EntryNames)) \X EntryKinds \X (0..(n - 1)) :
                       /\ up = 0 \/ es[up].kind \in {"dir", "locked"}
                       /\ es # <<>> =>
                            \/ es[Len(es)].parent < up
                            \/ /\ es[Len(es)].parent = up
                               /\ NameIndex(es[Len(es)].name) < k } }

\* The trees get_filenames is called on: a root that is a directory with up
\* to MaxEntries entries beneath it, that cannot be read, or that is a file.
Trees ==
    { [root |-> "dir", entries |-> es] : es \in EntryLists(MaxEntries) }
    \cup { [root |-> "locked", entries |-> es] : es \in EntryLists(1) }
    \cup { [root |-> "file", entries |-> <<>>] }

NoTree == [root |-> "file", entries |-> <<>>]

IdleCode ==
    /\ input = <<>>
    /\ extracted_code = NotCleaned

IdleLlm ==
    /\ llm_pc = "idle"
    /\ llm_result = None
    /\ llm_messages = <<>>
    /\ attempt_count = 0
    /\ reply_text = <<>>
    /\ llm_requests = 0

IdleMain ==
    /\ m_pc = "idle"
    /\ m_result = "none"
    /\ messages = <<>>
    /\ tries = 0
    /\ future = "none"
    /\ turn = 0
    /\ turn_end = "none"
    /\ outer_requests = 0
    /\ inner_requests = 0
    /\ sent = <<>>

IdleRegistry ==
    /\ rq_lang = "Python"
    /\ rq_kind = "Function"
    /\ looked_up = NotLookedUp

IdleLoop ==
    /\ files_in = <<>>
    /\ xa_files = <<>>
    /\ all_functions = <<>>
    /\ xa_pc = "idle"
    /\ xa_result = "none"
    /\ outcome = [f \in Files |-> "ok"]

IdleMakeChange ==
    /\ folder = PathOf(FALSE, <<>>)
    /\ git_dirs = {}
    /\ mc_pc = "idle"
    /\ mc_result = "none"
    /\ functions = <<>>
    /\ mc_changes = <<>>
    /\ requests = 0

IdleWalk ==
    /\ fs = NoTree
    /\ language = "Python"
    /\ discovered = NotDiscovered

InitWalk ==
    /\ fs \in Trees
    /\ language \in {"Python", "Rust"}
    /\ discovered = NotDiscovered
    /\ IdleIndent
    /\ IdlePatch
    /\ IdleExtract
    /\ IdleLoop
    /\ IdleMakeChange
    /\ IdleRegistry
    /\ IdleMain
    /\ IdleCode
    /\ IdleLlm

\* extract_sexpr_from_string is called on every source of up to MaxSrcLen
\* characters with a tree of one node, and on the example source with
\* every tree of up to MaxNodes nodes.
InitExtract ==
    /\ \/ /\ ex_source \in Texts(SrcChars, MaxSrcLen)
          /\ ex_tree \in NodeLists(ex_source, 1)
          /\ ex_item = ProgItem("Python", "Function")
       \/ /\ ex_source = ExampleSource
          /\ ex_tree \in NodeLists(ex_source, MaxNodes)
          /\ ex_item \in ProgItems
    /\ ex_items = NotExtracted
    /\ IdleIndent
    /\ IdlePatch
    /\ IdleWalk
    /\ IdleLoop
    /\ IdleMakeChange
    /\ IdleRegistry
    /\ IdleMain
    /\ IdleCode
    /\ IdleLlm

\* Most files in the list given to extract_all_items_from_files.
MaxFiles == 3

\* The state of apply_changes before make_change calls it on the disk d.
NotYetCalled(d) ==
    /\ disk = d
    /\ changes = <<>>
    /\ changes_by_file = <<>>
    /\ todo = {}
    /\ file_path = NoFile
    /\ lines = <<>>
    /\ sorted = <<>>
    /\ pc = "idle"
    /\ result = "none"
    /\ disk0 = d
    /\ fresh = <<>>
    /\ last = NoChange
    /\ nskipped = 0
    /\ nspliced = 0
    /\ reads = [f \in Files |-> 0]
    /\ writes = [f \in Files |-> 0]
    /\ failed = {}
    /\ consumed = EmptyBag
    /\ source = NoNode

\* extract_all_items_from_files is called on a list of up to MaxFiles files,
\* a file may be listed twice, for a Python item.
InitExtractAll ==
    /\ files_in \in Lists(Files, MaxFiles)
    /\ xa_files = files_in
    /\ all_functions = <<>>
    /\ xa_pc = "loop"
    /\ xa_result = "none"
    /\ outcome \in [Files -> Outcomes]
    /\ ex_source = <<>>
    /\ ex_tree = <<>>
    /\ ex_item \in {ProgItem("Python", "Function"), ProgItem("Python", "Class")}
    /\ ex_items = NotExtracted
    /\ NotYetCalled(SourceDisk)
    /\ IdleIndent
    /\ IdleWalk
    /\ IdleMakeChange
    /\ IdleRegistry
    /\ IdleMain
    /\ IdleCode
    /\ IdleLlm

PyName == <<"a", ".", "p", "y">>
OtherPyName == <<"b", ".", "p", "y">>

\* The trees make_change walks: f1 and f2 both found; f2 with an extension
\* that is not accepted; both found but a directory cannot be read; a root
\* that is no directory.
PipelineTrees ==
    { [root |-> "dir", entries |->
          << [name |-> PyName, kind |-> "file", parent |-> 0],
             [name |-> OtherPyName, kind |-> "file", parent |-> 0] >>],
      [root |-> "dir", entries |->
          << [name |-> PyName, kind |-> "file", parent |-> 0],
             [name |-> <<"b", ".", "P", "Y">>, kind |-> "file", parent |-> 0] >>],
      [root |-> "dir", entries |->
          << [name |-> PyName, kind |-> "file", parent |-> 0],
             [name |-> OtherPyName, kind |-> "file", parent |-> 0],
             [name |-> <<"s", "r", "c">>, kind |-> "locked", parent |-> 0] >>],
      [root |-> "file", entries |-> <<>>] }

\* The names a lookup is asked for: those of the program's variants, the
\* other kinds an item of either language could be of, one in another case,
\* and languages the program has no grammar for.
LanguageNames == {"Python", "Rust", "Go", "python"}

KindNames ==
    {"Function", "Class", "Method", "Decorator", "Generator", "Comprehension",
     "Struct", "Enum", "Trait", "Impl", "Macro", "Const", "Static",
     "TypeAlias", "Module", "function"}

InitRegistry ==
    /\ rq_lang \in LanguageNames
    /\ rq_kind \in KindNames
    /\ looked_up = NotLookedUp
    /\ IdleIndent
    /\ IdlePatch
    /\ IdleWalk
    /\ IdleExtract
    /\ IdleLoop
    /\ IdleMakeChange
    /\ IdleMain
    /\ IdleCode
    /\ IdleLlm

\* Deepest target folder.
MaxDepth == 2

\* The folders: relative and absolute paths of up to MaxDepth components.
Folders ==
    { PathOf(abs, comps) : abs \in BOOLEAN, comps \in Lists({"a", "b"}, MaxDepth) }

\* main has initialized the chat (lines 43-54) and is about to prompt.
InitMain ==
    /\ m_pc = "prompt"
    /\ m_result = "none"
    /\ messages = <<SystemMessage>>
    /\ tries = 0
    /\ future = "none"
    /\ turn = 0
    /\ turn_end = "none"
    /\ outer_requests = 0
    /\ inner_requests = 0
    /\ sent = <<>>
    /\ IdleIndent
    /\ IdlePatch
    /\ IdleWalk
    /\ IdleExtract
    /\ IdleLoop
    /\ IdleMakeChange
    /\ IdleRegistry
    /\ IdleCode
    /\ IdleLlm

\* Most lines of a text given to extract_python_code.
MaxInputLines == 4

\* The lines of such a text: empty, code, a bare fence, an opening fence,
\* an opening fence and a bare fence after whitespace, a fence of another
\* language, a fence within a line.
FenceLines ==
    { <<>>, <<"a">>, <<"b">>, <<FENCE>>, <<FENCE, PY>>, <<SP, FENCE, PY>>,
      <<SP, FENCE>>, <<FENCE, "a">>, <<"a", FENCE, PY>> }

\* The texts of up to MaxInputLines lines, with and without a final line
\* ending.
FenceInputs ==
    LET joined == { join(ls, <<NL>>) : ls \in Lists(FenceLines, MaxInputLines) }
    IN  joined \cup { Append(t, NL) : t \in joined }

InitCode ==
    /\ input \in FenceInputs
    /\ extracted_code = NotCleaned
    /\ IdleIndent
    /\ IdlePatch
    /\ IdleWalk
    /\ IdleExtract
    /\ IdleLoop
    /\ IdleMakeChange
    /\ IdleRegistry
    /\ IdleMain
    /\ IdleLlm

\* process_chat_prompt is called: the system message and the prompt are
\* the messages (lines 24-36), attempt_count is 0 (line 38).
InitLlm ==
    /\ llm_pc = "env"
    /\ llm_result = None
    /\ llm_messages = <<>>
    /\ attempt_count = 0
    /\ reply_text = <<>>
    /\ llm_requests = 0
    /\ IdleIndent
    /\ IdlePatch
    /\ IdleWalk
    /\ IdleExtract
    /\ IdleLoop
    /\ IdleMakeChange
    /\ IdleRegistry
    /\ IdleMain
    /\ IdleCode

\* make_change is called for a Python item, on a folder of a disk on which
\* at most one directory holds a .git directory.
InitPipeline ==
    /\ folder \in Folders
    /\ git_dirs \in {{}} \cup {{p} : p \in Folders}
    /\ mc_pc = "git"
    /\ mc_result = "none"
    /\ functions = <<>>
    /\ mc_changes = <<>>
    /\ requests = 0
    /\ fs \in PipelineTrees
    /\ language = "Python"
    /\ discovered = NotDiscovered
    /\ ex_item \in {ProgItem("Python", "Function"), ProgItem("Python", "Class")}
    /\ ex_source = <<>>
    /\ ex_tree = <<>>
    /\ ex_items = NotExtracted
    /\ files_in = <<>>
    /\ xa_files = <<>>
    /\ all_functions = <<>>
    /\ xa_pc = "idle"
    /\ xa_result = "none"
    /\ outcome \in [Files -> {"ok", "read", "parse"}]
    /\ NotYetCalled(SourceDisk)
    /\ IdleIndent
    /\ IdleRegistry
    /\ IdleMain
    /\ IdleCode
    /\ IdleLlm

InitIndent ==
    /\ old_code \in OldCodes
    /\ new_code \in Texts(Chars, MaxNewLen)
    /\ indented = NotCalled
    /\ IdlePatch
    /\ IdleWalk
    /\ IdleExtract
    /\ IdleLoop
    /\ IdleMakeChange
    /\ IdleRegistry
    /\ IdleMain
    /\ IdleCode
    /\ IdleLlm

Init ==
    /\ IdleIndent
    /\ IdleWalk
    /\ IdleExtract
    /\ IdleLoop
    /\ IdleMakeChange
    /\ IdleRegistry
    /\ IdleMain
    /\ IdleCode
    /\ IdleLlm
    /\ source = NoNode
    /\ \E c \in FileContents, cs \in Lists(F1Changes \cup F2Changes, MaxChanges) :
         Called([f \in Files |-> IF f = "f1" THEN c ELSE F2Content], cs)

Next ==
    \/ Group
    \/ ReadFile
    \/ ReadFail
    \/ ApplyChange
    \/ WriteFile
    \/ WriteFail
    \/ Return

\* The steps of make_change, those of the calls it makes included
PipelineNext ==
    \/ MakeChangeGit
    \/ MakeChangeDiscover
    \/ ExtractAllNext
    \/ MakeChangeExtracted
    \/ SendRequest
    \/ ReceiveReply
    \/ RequestFail
    \/ ReplyPanic
    \/ MakeChangeApply
    \/ Next
    \/ MakeChangeReturn

\* An item is extracted from f1 and a change whose after text is the item's
\* definition is handed to apply_changes.
InitRoundTrip ==
    /\ IdleIndent
    /\ IdleWalk
    /\ IdleExtract
    /\ IdleLoop
    /\ IdleMakeChange
    /\ IdleRegistry
    /\ IdleMain
    /\ IdleCode
    /\ IdleLlm
    /\ \E src \in Texts({"a", SP, NL}, MaxSrcLen) : \E node \in Nodes(src) :
         /\ source = node
         /\ LET item == extract_item(src, node, "f1")
            IN  Called([f \in Files |-> IF f = "f1" THEN src ELSE F2Content],
                       <<ItemChange(item, item.definition)>>)

\* apply_changes run on generated files and changes
Spec == Init /\ [][Next]_vars

\* extraction followed by apply_changes of the unchanged item
SpecRoundTrip == InitRoundTrip /\ [][Next]_vars

\* apply_indentation run on generated texts
SpecIndent == InitIndent /\ [][CallApplyIndentation]_vars

\* get_filenames run on generated trees
SpecWalk == InitWalk /\ [][CallGetFilenames]_vars

\* extract_sexpr_from_string run on generated sources and trees
SpecExtract == InitExtract /\ [][CallExtract]_vars

\* extract_all_items_from_files run on generated lists of files
SpecExtractAll == InitExtractAll /\ [][ExtractAllNext]_vars

\* make_change run from its git check to its return
SpecPipeline == InitPipeline /\ [][PipelineNext]_vars

\* one lookup
SpecRegistry == InitRegistry /\ [][CallLookup]_vars

\* main, from its first prompt on
SpecMain == InitMain /\ [][MainNext]_vars

\* extract_python_code run on generated texts
SpecCode == InitCode /\ [][CallExtractPythonCode]_vars

\* one call of process_chat_prompt
SpecLlm == InitLlm /\ [][LlmNext]_vars

\* the same, where a step that can be taken is taken: a request that was
\* sent is answered, and the code between two requests runs
SpecLlmFair == SpecLlm /\ WF_vars(LlmNext)

-----------------------------------------------------------------------------
(* Vocabulary of the properties.  None of it is used by the model above:   *)
(* lines, whitespace runs and minima are stated here by what they are, not *)
(* by how the program computes them.                                       *)

\* Position of the k-th NL of t; 0 for k = 0, Len(t) + 1 past the last one.
NLCount(t) == Cardinality({i \in 1..Len(t) : t[i] = NL})
NLPos(t, k) ==
    IF k = 0 THEN 0
    ELSE IF k > NLCount(t) THEN Len(t) + 1
    ELSE CHOOSE i \in 1..Len(t) :
            t[i] = NL /\ Cardinality({j \in 1..i : t[j] = NL}) = k

\* The k-th piece of t when t is cut at every NL (NLCount(t) + 1 pieces).
Piece(t, k) == SubSeq(t, NLPos(t, k - 1) + 1, NLPos(t, k) - 1)
NumPieces(t) == NLCount(t) + 1

\* The number of lines of t: a last piece that is empty is no line.
NumLines(t) ==
    IF Piece(t, NumPieces(t)) = <<>> THEN NumPieces(t) - 1 ELSE NumPieces(t)

\* The lines of t, as a list.
LinesOf(t) == [k \in 1..NumLines(t) |-> Piece(t, k)]

\* Length of the longest prefix of l made of whitespace only.
WsRun(l) ==
    CHOOSE n \in 0..Len(l) :
        /\ \A i \in 1..n : l[i] \in {SP, TAB, NBSP}
        /\ n = Len(l) \/ l[n + 1] \notin {SP, TAB, NBSP}

Blank(l) == WsRun(l) = Len(l)

\* U: the whitespace run of the first non-blank line of t, empty if none.
IndentUnit(t) ==
    IF \E k \in 1..NumLines(t) : ~Blank(Piece(t, k))
    THEN LET k == CHOOSE k \in 1..NumLines(t) :
                    /\ ~Blank(Piece(t, k))
                    /\ \A j \in 1..(k - 1) : Blank(Piece(t, j))
         IN  SubSeq(Piece(t, k), 1, WsRun(Piece(t, k)))
    ELSE <<>>

\* b: the least whitespace run over the non-blank lines of t, 0 if none.
BaseIndent(t) ==
    IF \E k \in 1..NumLines(t) : ~Blank(Piece(t, k))
    THEN CHOOSE m \in 0..Len(t) :
            /\ \E k \in 1..NumLines(t) :
                 ~Blank(Piece(t, k)) /\ WsRun(Piece(t, k)) = m
            /\ \A k \in 1..NumLines(t) :
                 ~Blank(Piece(t, k)) => WsRun(Piece(t, k)) >= m
    ELSE 0

\* The indentation of t is made of spaces and tabs.
SpaceTabIndent(t) == \A i \in 1..Len(t) : t[i] # NBSP

Returned == indented # NotCalled /\ indented # Panicked

RECURSIVE TotalLen(_)
\* The characters of a list of lines, line endings not counted.
TotalLen(ls) == IF ls = <<>> THEN 0 ELSE Len(ls[1]) + TotalLen(Tail(ls))

EndsWith(t, n) == Len(t) >= n /\ \A i \in (Len(t) - n + 1)..Len(t) : t[i] = NL

-----------------------------------------------------------------------------
(* Properties of apply_indentation, checked under SpecIndent *)

\* C6: indentation law.  With U the whitespace run of old_code's first
\* non-blank line and b the least whitespace run over new_code's non-blank
\* lines, the k-th line of the returned text is U followed by new_code's
\* k-th line less its first b characters when that line is not blank, and is
\* new_code's k-th line itself when it is blank; the returned text holds
\* nothing else but at most one more line ending.  For new_code indented
\* with spaces and tabs.
C6_IndentationLaw ==
    (Returned /\ SpaceTabIndent(new_code)) =>
        LET n == NumLines(new_code)
            expected == [k \in 1..n |->
                LET l == Piece(new_code, k)
                IN  IF Blank(l) THEN l
                    ELSE IndentUnit(old_code) \o
                         SubSeq(l, BaseIndent(new_code) + 1, Len(l))]
            joined == TotalLen(expected) + (IF n = 0 THEN 0 ELSE n - 1)
        IN  /\ \A k \in 1..n : Piece(indented, k) = expected[k]
            /\ \/ Len(indented) = joined
               \/ Len(indented) = joined + 1 /\ indented[Len(indented)] = NL

\* C6 witness: a tab-indented original, a replacement whose two non-blank
\* lines are indented by one and by two characters, re-indented.
C6_Witness ==
    /\ Returned
    /\ SpaceTabIndent(new_code)
    /\ IndentUnit(old_code) = <<TAB>>
    /\ BaseIndent(new_code) = 1
    /\ \E k \in 1..NumLines(new_code) :
          ~Blank(Piece(new_code, k)) /\ WsRun(Piece(new_code, k)) = 2
    /\ indented # new_code

\* C7 as claimed: the returned text ends with exactly one newline.
C7_ExactlyOneNewline ==
    Returned => (EndsWith(indented, 1) /\ ~EndsWith(indented, 2))

\* C7 as amended: the returned text ends with a newline, and it ends with two
\* or more exactly when new_code ends with three or more.
C7_EndsWithNewline ==
    Returned =>
        /\ EndsWith(indented, 1)
        /\ EndsWith(indented, 2) <=> EndsWith(new_code, 3)

\* C7 witness: a replacement with code in it that ends with three newlines
\* came back ending with two.
C7_Witness ==
    /\ Returned
    /\ \E i \in 1..Len(new_code) : new_code[i] = "a"
    /\ EndsWith(new_code, 3)
    /\ EndsWith(indented, 2)

\* C8 as claimed: apply_indentation returns on every replacement text.
C8_NeverFails == indented # Panicked

\* A line from its first character that is not whitespace to its end.
Body(l) == SubSeq(l, WsRun(l) + 1, Len(l))

\* The row of the last line of t that is not blank; 0 if there is none.
LastNonBlank(t) ==
    IF \E k \in 1..NumLines(t) : ~Blank(Piece(t, k))
    THEN CHOOSE k \in 1..NumLines(t) :
            /\ ~Blank(Piece(t, k))
            /\ \A j \in (k + 1)..NumLines(t) : Blank(Piece(t, j))
    ELSE 0

\* C29: apply_indentation removes only whitespace.  The count of characters
\* it strips is at most the whitespace run of every non-blank line of
\* new_code; in the text it returns, every non-blank line of new_code is at
\* the same row and holds, from its first non-whitespace character to its
\* end, what it held; every blank line up to the last non-blank one is as it
\* was; and the last non-blank line is at the same row, so that no line was
\* added, dropped or moved up to it.
C29_OnlyWhitespaceRemoved ==
    Returned =>
        /\ \A k \in 1..NumLines(new_code) :
              LET l == Piece(new_code, k)
                  o == Piece(indented, k)
              IN  IF Blank(l)
                  THEN k <= LastNonBlank(new_code) => o = l
                  ELSE /\ new_indentation_count(new_code) <= WsRun(l)
                       /\ ~Blank(o)
                       /\ Body(o) = Body(l)
                       /\ Len(o) - Len(Body(o)) - Len(IndentUnit(old_code))
                             \in 0..WsRun(l)
        /\ LastNonBlank(indented) = LastNonBlank(new_code)

\* C29 witness: a replacement of three lines, the middle one blank, the
\* first indented deeper than the last, was re-indented: the first line kept
\* part of its whitespace and all of its code.
C29_Witness ==
    /\ Returned
    /\ LastNonBlank(new_code) = 3
    /\ Blank(Piece(new_code, 2))
    /\ WsRun(Piece(new_code, 1)) > WsRun(Piece(new_code, 3))
    /\ WsRun(Piece(new_code, 3)) > 0
    /\ Body(Piece(indented, 1)) = Body(Piece(new_code, 1))
    /\ indented # new_code

-----------------------------------------------------------------------------
(* Vocabulary of the properties of apply_changes *)

\* The rows a change names; none when start_pos > end_pos.
Rows(c) == c.before.start_pos..c.before.end_pos

\* The changes of cs that name the file f, in the order of cs.
ChangesTo(cs, f) == SelectSeq(cs, LAMBDA c : c.before.filename = f)

\* No two changes of cs name a common row.
PairwiseDisjoint(cs) ==
    \A i, j \in 1..Len(cs) : i # j => Rows(cs[i]) \cap Rows(cs[j]) = {}

\* The change names rows of a file of n lines, at least one.
InBounds(c, n) ==
    c.before.start_pos <= c.before.end_pos /\ c.before.end_pos < n

\* The lines that stand for the change: those of its normalized after text.
Replacement(c) == LinesOf(apply_indentation(c.before.definition, c.after))

\* By how many lines replacing the change's rows lengthens a file of n lines.
Delta(c, n) ==
    IF InBounds(c, n)
    THEN Len(Replacement(c)) - (c.before.end_pos - c.before.start_pos + 1)
    ELSE 0

RECURSIVE Shift(_, _, _)
\* By how many rows the changes of cs that end above row i move row i.
Shift(cs, n, i) ==
    IF cs = <<>> THEN 0
    ELSE (IF cs[1].before.end_pos < i THEN Delta(cs[1], n) ELSE 0)
         + Shift(Tail(cs), n, i)

Perms(n) == {p \in [1..n -> 1..n] : \A i, j \in 1..n : p[i] = p[j] => i = j}

Permuted(cs, p) == [i \in 1..Len(cs) |-> cs[p[i]]]

\* What f holds after apply_changes(cs) has run on the disk d to its end.
Patched(d, cs, f) ==
    IF ChangesTo(cs, f) = <<>> THEN d[f] ELSE patch_file(d[f], ChangesTo(cs, f))

-----------------------------------------------------------------------------
(* Properties of apply_changes, checked under Spec *)

\* C1 as claimed: whenever a change has been spliced, every change of the
\* file still pending has all its rows strictly below the spliced rows, and
\* the buffer holds at the pending change's rows what the freshly read file
\* held there.
C1_NoDrift ==
    last.kind = "spliced" =>
        \A i \in 1..Len(sorted) :
            /\ sorted[i].before.end_pos < last.change.before.start_pos
            /\ \A r \in Rows(sorted[i]) :
                  /\ r < Len(lines) <=> r < Len(fresh)
                  /\ r < Len(fresh) => lines[r + 1] = fresh[r + 1]

\* The property C1 claims, for the lists it holds for: those whose changes
\* name pairwise disjoint rows within each file.
NoDriftWhenDisjoint ==
    (\A f \in Files : PairwiseDisjoint(ChangesTo(changes, f))) => C1_NoDrift

\* C2: order independence.  When apply_changes has returned Ok for a list
\* of changes whose rows are pairwise disjoint within each file, every file
\* holds what apply_changes leaves in it for any permutation of the list.
C2_OrderIndependent ==
    (result = "Ok" /\ \A f \in Files : PairwiseDisjoint(ChangesTo(changes, f))) =>
        \A p \in Perms(Len(changes)) : \A f \in Files :
            disk[f] = Patched(disk0, Permuted(changes, p), f)

\* C2 witness: two changes to f1 with disjoint rows, given lowest first so
\* that sorting reorders them, both spliced, the upper one lengthening the
\* file.
C2_Witness ==
    /\ result = "Ok"
    /\ Len(changes) = 2
    /\ changes[1].before.filename = "f1" /\ changes[2].before.filename = "f1"
    /\ PairwiseDisjoint(changes)
    /\ changes[1].before.start_pos < changes[2].before.start_pos
    /\ Delta(changes[1], NumLines(disk0["f1"])) > 0
    /\ nspliced = 2

C5_ReplacesRange ==
    /\ last.kind = "spliced" =>
        LET s == last.change.before.start_pos
            e == last.change.before.end_pos
            b == last.buffer
            R == Replacement(last.change)
        IN  /\ Len(lines) = Len(b) - (e - s + 1) + Len(R)
            /\ \A i \in 1..s : lines[i] = b[i]
            /\ \A j \in 1..Len(R) : lines[s + j] = R[j]
            /\ \A i \in (e + 2)..Len(b) : lines[i - (e - s + 1) + Len(R)] = b[i]
    /\ result = "Ok" =>
        \A f \in Files :
            LET cs == ChangesTo(changes, f)
                orig == LinesOf(disk0[f])
                fin == LinesOf(disk[f])
            IN  PairwiseDisjoint(cs) =>
                  /\ Len(fin) = Len(orig) + Shift(cs, Len(orig), Len(orig))
                  /\ \A k \in 1..Len(cs) : InBounds(cs[k], Len(orig)) =>
                        LET at == cs[k].before.start_pos
                                  + Shift(cs, Len(orig), cs[k].before.start_pos)
                        IN  \A j \in 1..Len(Replacement(cs[k])) :
                                fin[at + j] = Replacement(cs[k])[j]
                  /\ (/\ Len(cs) = 1
                      /\ Len(orig) >= 1
                      /\ cs[1].before.start_pos = 0
                      /\ cs[1].before.end_pos = Len(orig) - 1) =>
                        disk[f] = apply_indentation(cs[1].before.definition,
                                                    cs[1].after)

\* C5 witness: the only change of f1 names both rows of f1 and has a
\* two-line replacement to re-indent; f1 now holds the normalized text.
C5_Witness ==
    /\ result = "Ok"
    /\ LET cs == ChangesTo(changes, "f1")
       IN  /\ Len(cs) = 1
           /\ cs[1].before.start_pos = 0
           /\ cs[1].before.end_pos = 1
           /\ NumLines(disk0["f1"]) = 2
           /\ cs[1].after # apply_indentation(cs[1].before.definition, cs[1].after)
           /\ disk["f1"] = <<SP, "y", NL, SP, SP, "z", NL>>

\* C9 as claimed: a change whose end_pos is no row of the freshly read file
\* is never spliced.
C9_OutOfBoundsSkipped ==
    last.kind = "spliced" => last.change.before.end_pos < Len(fresh)

\* C10 as claimed: a call that skipped a change does not return the plain Ok
\* of a call that applied every change.
C10_SkipSurfaced ==
    (pc = "done" /\ nskipped > 0) => result # "Ok"

\* C11 as claimed: when apply_changes has stopped after an I/O error on one
\* file, every other file named by a change has been attempted: it was read.
C11_OthersAttempted ==
    (pc = "done" /\ failed # {}) =>
        \A f \in DOMAIN changes_by_file : f \in failed \/ reads[f] > 0

\* C11 as amended: the first I/O error ends the call.  Once a read or a
\* write of a file has failed, apply_changes has returned the error, no
\* second file has failed, and every other file named by a change either was
\* read and rewritten before the failure or is never read or written and
\* holds what it held when the call began.
C11_ErrorEndsCall ==
    failed # {} =>
        /\ pc = "done"
        /\ result = "Err"
        /\ Cardinality(failed) = 1
        /\ \A f \in DOMAIN changes_by_file \ failed :
              \/ reads[f] = 1 /\ writes[f] = 1
              \/ reads[f] = 0 /\ writes[f] = 0 /\ disk[f] = disk0[f]

\* C11 witness: the read of f1 failed while a change to f2 was waiting; the
\* call is over and f2 was never read.
C11_Witness ==
    /\ failed = {"f1"}
    /\ reads["f1"] = 0
    /\ "f2" \in DOMAIN changes_by_file
    /\ reads["f2"] = 0
    /\ pc = "done"

\* C12: no rollback.  In every state the call passes through or stops in,
\* a file whose rewrite was completed holds its fully patched content, a
\* file the loop has not reached holds its original content, and so no file
\* but the one the loop is at holds anything else.
C12_NoRollback ==
    \A f \in Files :
        /\ writes[f] > 0 => disk[f] = Patched(disk0, changes, f)
        /\ (writes[f] = 0 /\ f # file_path) => disk[f] = disk0[f]
        /\ f # file_path => disk[f] \in {disk0[f], Patched(disk0, changes, f)}

\* C12 witness: f2 was rewritten with new content, then the write of f1
\* failed after the file was truncated: f1 holds neither its original nor
\* its patched content, f2 keeps its patched content.
C12_Witness ==
    /\ result = "Err"
    /\ failed = {"f1"}
    /\ writes["f2"] = 1
    /\ disk["f2"] # disk0["f2"]
    /\ disk["f2"] = Patched(disk0, changes, "f2")
    /\ disk["f1"] # disk0["f1"]
    /\ disk["f1"] # Patched(disk0, changes, "f1")

\* How many times the inner loop has taken the change c, as kind, into f.
Taken(c, f, kind) ==
    CopiesIn([change |-> c, file |-> f, kind |-> kind], consumed)

\* How many times the change c is in the list cs.
Times(cs, c) == Cardinality({i \in 1..Len(cs) : cs[i] = c})

\* C22: every change is consumed exactly once and every named file is read
\* once and written once.  At every moment of a call no change has been
\* taken into a file other than the one it names, or more often than it is
\* in the list, no file has been read or written twice, and a file no change
\* names has not been read or written; and once the call has returned Ok
\* every change of the list has been taken as often as it is in the list,
\* each time either spliced or skipped, and every file a change names has
\* been read once and written once.
C22_ConsumedOnce ==
    /\ \A e \in BagToSet(consumed) :
          /\ e.file = e.change.before.filename
          /\ e.kind \in {"spliced", "skipped"}
          /\ Taken(e.change, e.file, "spliced") + Taken(e.change, e.file, "skipped")
                <= Times(changes, e.change)
    /\ \A f \in Files :
          /\ writes[f] <= reads[f] /\ reads[f] <= 1
          /\ ChangesTo(changes, f) = <<>> =>
                reads[f] = 0 /\ writes[f] = 0 /\ disk[f] = disk0[f]
    /\ result = "Ok" =>
          /\ \A i \in 1..Len(changes) :
                LET c == changes[i]
                    f == c.before.filename
                IN  /\ Taken(c, f, "spliced") + Taken(c, f, "skipped")
                          = Times(changes, c)
                    /\ reads[f] = 1 /\ writes[f] = 1
          /\ BagCardinality(consumed) = Len(changes)

\* C22 witness: a call with the same change to f1 twice in its list has
\* returned Ok, the change taken twice, spliced the first time and skipped
\* the second because the splice shortened the file; f1 was read once and
\* written once and f2 not at all.
C22_Witness ==
    /\ result = "Ok"
    /\ Len(changes) = 2
    /\ changes[1] = changes[2]
    /\ changes[1].before.filename = "f1"
    /\ Taken(changes[1], "f1", "spliced") = 1
    /\ Taken(changes[1], "f1", "skipped") = 1
    /\ reads["f1"] = 1 /\ writes["f1"] = 1
    /\ reads["f2"] = 0 /\ writes["f2"] = 0

\* No change has been spliced into f.
NothingSpliced(f) == \A e \in BagToSet(consumed) : e.file = f => e.kind = "skipped"

\* Every line of t, the last included, is followed by its NL, and no NL of t
\* is one of a line's characters: t is cut into its lines exactly at its NLs.
EveryLineTerminated(t) == Piece(t, NumPieces(t)) = <<>> /\ NLCount(t) = NumLines(t)

\* C23: a file apply_changes has rewritten consists of the resulting line
\* sequence, every line, the last included, followed by exactly one NL: its
\* lines are the lines of the buffer as the inner loop left it (seen while
\* the file is still the loop's current one), and each is terminated.  A
\* rewritten file into which no change was spliced has the lines it had.
C23_OneLinePerTerminator ==
    \A f \in Files :
        writes[f] > 0 =>
            /\ EveryLineTerminated(disk[f])
            /\ f = file_path => LinesOf(disk[f]) = lines
            /\ NothingSpliced(f) => LinesOf(disk[f]) = LinesOf(disk0[f])

\* C23 witness: f2, whose one line had no line ending, was rewritten with
\* its only change skipped: it has the same line, now terminated.
C23_Witness ==
    /\ writes["f2"] = 1
    /\ Taken(changes[1], "f2", "skipped") = 1
    /\ NothingSpliced("f2")
    /\ disk0["f2"] = <<"b">>
    /\ disk["f2"] = <<"b", NL>>

\* C28: no splice with an invalid range.  Whenever the inner loop has
\* spliced a change, the change's rows satisfied start_pos <= end_pos < the
\* length the buffer had at that moment, whatever earlier splices had made
\* of it, and the buffer now has the replacement's lines in place of those
\* rows; and a change with start_pos > end_pos was skipped, the buffer left
\* as it was.
C28_ValidRange ==
    last.kind # "none" =>
        LET s == last.change.before.start_pos
            e == last.change.before.end_pos
        IN  /\ last.kind = "spliced" =>
                  /\ s <= e
                  /\ e < Len(last.buffer)
                  /\ Len(lines) = Len(last.buffer) - (e - s + 1)
                                    + Len(Replacement(last.change))
            /\ s > e => last.kind = "skipped" /\ lines = last.buffer

\* C28 witness: a change was spliced into a buffer that an earlier splice
\* had made shorter than the file read.
C28_Witness ==
    /\ last.kind = "spliced"
    /\ nspliced = 2
    /\ Len(last.buffer) < Len(fresh)
    /\ last.change.before.end_pos = Len(last.buffer) - 1

-----------------------------------------------------------------------------
(* Vocabulary of the properties of get_filenames *)

Walked == discovered # NotDiscovered

RECURSIVE Above(_, _)
\* The directories between the root and the entry i, the root left out.
Above(tree, i) ==
    IF tree.entries[i].parent = 0 THEN {}
    ELSE {tree.entries[i].parent} \cup Above(tree, tree.entries[i].parent)

\* A directory the walk is to leave out: its name starts with '.' or is one
\* of the language's excluded names.
Hidden(tree, lang, d) ==
    \/ tree.entries[d].name[1] = "."
    \/ tree.entries[d].name \in get_excluded_directories(lang)

\* The name is a non-empty stem, a '.', and ext.
EndsInExt(name, ext) ==
    /\ Len(name) > Len(ext) + 1
    /\ SubSeq(name, Len(name) - Len(ext), Len(name)) = <<".">> \o ext

\* The files the walk is to return.
Wanted(tree, lang) ==
    { i \in 1..Len(tree.entries) :
        /\ tree.entries[i].kind = "file"
        /\ \E ext \in file_extensions(lang) : EndsInExt(tree.entries[i].name, ext)
        /\ \A d \in Above(tree, i) : ~Hidden(tree, lang, d) }

\* The directories the walk has to read: the root and every directory with
\* no hidden directory on its path, itself included.
ToRead(tree, lang) ==
    (IF tree.root = "file" THEN {} ELSE {0}) \cup
    { d \in 1..Len(tree.entries) :
        /\ tree.entries[d].kind # "file"
        /\ \A a \in Above(tree, d) \cup {d} : ~Hidden(tree, lang, a) }

Locked(tree, d) == (IF d = 0 THEN tree.root ELSE tree.entries[d].kind) = "locked"

Elems(l) == {l[i] : i \in 1..Len(l)}

-----------------------------------------------------------------------------
(* Properties of get_filenames, checked under SpecWalk *)

\* C14: when get_filenames returns a list, the list holds, once each,
\* exactly the files beneath the root whose name ends in '.' and an accepted
\* extension, compared case-sensitively, and that have no directory above
\* them, up to the root, whose name starts with '.' or is excluded; and
\* whether it returns or fails, it has read no such directory nor any
\* directory beneath one.
C14_ExactlyMatchingFiles ==
    Walked =>
        /\ discovered.ok =>
              /\ Elems(discovered.files) = Wanted(fs, language)
              /\ Len(discovered.files) = Cardinality(Wanted(fs, language))
        /\ Elems(discovered.opened) \subseteq ToRead(fs, language)

\* C14 witness: the walk returned a file of the root and left out a file of
\* the same name in an excluded directory, which it did not read.
C14_Witness ==
    /\ Walked
    /\ discovered.ok
    /\ \E i, j, d \in 1..Len(fs.entries) :
          /\ fs.entries[i].parent = 0
          /\ i \in Elems(discovered.files)
          /\ fs.entries[d].kind = "dir"
          /\ Hidden(fs, language, d)
          /\ fs.entries[j].parent = d
          /\ fs.entries[j].name = fs.entries[i].name
          /\ fs.entries[j].kind = "file"
          /\ j \notin Elems(discovered.files)
          /\ d \notin Elems(discovered.opened)
    /\ language = "Python"

\* C15: fail-fast.  get_filenames returns a list exactly when no directory
\* it has to read fails to be read; when one fails, at whatever depth, it
\* returns an error and no path.
C15_FailFast ==
    Walked =>
        /\ discovered.ok <=> \A d \in ToRead(fs, language) : ~Locked(fs, d)
        /\ ~discovered.ok => discovered.files = <<>>

\* C15 witness: a matching file of the root had been collected when a
\* directory two levels down could not be read; the call returned an error.
C15_Witness ==
    /\ Walked
    /\ ~discovered.ok
    /\ \E i, d, e \in 1..Len(fs.entries) :
          /\ i \in Wanted(fs, language)
          /\ fs.entries[i].parent = 0
          /\ i < d
          /\ fs.entries[d].parent = 0
          /\ fs.entries[d].kind = "dir"
          /\ fs.entries[e].parent = d
          /\ fs.entries[e].kind = "locked"
          /\ e \in Elems(discovered.opened)

-----------------------------------------------------------------------------
(* Vocabulary of the properties of extract_sexpr_from_string *)

Extracted == ex_items # NotExtracted

\* The bytes a character takes.
Width(c) == IF c = NBSP THEN 2 ELSE 1

RECURSIVE Offset(_, _)
\* The bytes the first k characters of t take: the byte offset of the next.
Offset(t, k) == IF k = 0 THEN 0 ELSE Offset(t, k - 1) + Width(t[k])

\* The index of the character of t that starts at byte offset b; Len(t) + 1
\* for the offset of the end of t.
CharAt(t, b) == CHOOSE i \in 1..(Len(t) + 1) : Offset(t, i - 1) = b

\* The row of byte offset b: the number of line endings before it.
RowOfByte(t, b) == Cardinality({i \in 1..(CharAt(t, b) - 1) : t[i] = NL})

RECURSIVE LineOffset(_, _)
\* The byte offset at which row r of the list of lines ls starts.
LineOffset(ls, r) ==
    IF r = 0 THEN 0
    ELSE LineOffset(ls, r - 1) + Offset(ls[r], Len(ls[r])) + 1

\* The kind of node an item asks for.
WantedKind(it) ==
    CASE it = ProgItem("Python", "Function") -> "function_definition"
      [] it = ProgItem("Python", "Class") -> "class_definition"
      [] it = ProgItem("Rust", "Function") -> "function_item"
      [] it = ProgItem("Rust", "Struct") -> "struct_item"
      [] it = ProgItem("Rust", "Enum") -> "enum_item"

\* The positions in the tree of the nodes of a kind.
NodesOfKind(tree, kind) == {n \in 1..Len(tree) : tree[n].kind = kind}

\* The k-th node of a kind, in document order.
NthOfKind(tree, kind, k) ==
    tree[CHOOSE n \in NodesOfKind(tree, kind) :
            Cardinality({m \in NodesOfKind(tree, kind) : m < n}) = k - 1]

IsPrefix(p, l) == Len(p) <= Len(l) /\ SubSeq(l, 1, Len(p)) = p

-----------------------------------------------------------------------------
(* Properties of extract_sexpr_from_string, checked under SpecExtract *)

\* C16: every ItemDef returned belongs to a node of the kind asked for, with
\* end_byte the node's end byte; start_byte is not after the node's start,
\* is 0 or the byte right after a line ending, and no line ending lies
\* between it and the node's start; definition is the source from
\* start_byte up to end_byte.
C16_WholeLinePrefix ==
    Extracted =>
        \A k \in 1..Len(ex_items) :
            \E n \in NodesOfKind(ex_tree, WantedKind(ex_item)) :
                LET it == ex_items[k]
                    first == CharAt(ex_source, it.start_byte)
                    node_first == CharAt(ex_source, ex_tree[n].start_byte)
                IN  /\ it.end_byte = ex_tree[n].end_byte
                    /\ it.start_byte <= ex_tree[n].start_byte
                    /\ it.start_byte = 0 \/ ex_source[first - 1] = NL
                    /\ \A i \in first..(node_first - 1) : ex_source[i] # NL
                    /\ it.definition =
                         SubSeq(ex_source, first, CharAt(ex_source, it.end_byte) - 1)

\* C16 witness: an item whose node starts after the indentation of the
\* second line and ends before the end of a line: its definition starts
\* with the indentation and stops where the node stops.
C16_Witness ==
    /\ Extracted
    /\ \E k \in 1..Len(ex_items) : \E n \in 1..Len(ex_tree) :
          /\ ex_items[k].end_byte = ex_tree[n].end_byte
          /\ ex_items[k].start_byte > 0
          /\ ex_items[k].start_byte < ex_tree[n].start_byte
          /\ ex_items[k].end_byte < Offset(ex_source, Len(ex_source))
          /\ ex_source[CharAt(ex_source, ex_items[k].end_byte)] # NL
          /\ ex_items[k].definition[1] = NBSP

\* C17: every ItemDef returned has start_pos <= end_pos, the rows of its
\* node's start and end; and with the lines apply_changes splits the same
\* source into, end_pos is a row of the file, row start_pos starts at
\* start_byte, and the lines of definition are the rows start_pos..end_pos,
\* the last one up to where the node ends.
C17_RowsAgree ==
    Extracted =>
        \A k \in 1..Len(ex_items) :
            \E n \in NodesOfKind(ex_tree, WantedKind(ex_item)) :
                LET it == ex_items[k]
                    rows == str_lines(ex_source)
                    covered == LinesOf(it.definition)
                IN  /\ it.end_byte = ex_tree[n].end_byte
                    /\ it.start_pos <= it.end_pos
                    /\ it.start_pos = RowOfByte(ex_source, ex_tree[n].start_byte)
                    /\ it.end_pos = RowOfByte(ex_source, ex_tree[n].end_byte)
                    /\ it.end_pos < Len(rows)
                    /\ LineOffset(rows, it.start_pos) = it.start_byte
                    /\ Len(covered) = it.end_pos - it.start_pos + 1
                    /\ \A j \in 1..(Len(covered) - 1) :
                          covered[j] = rows[it.start_pos + j]
                    /\ covered[Len(covered)] # <<>>
                    /\ IsPrefix(covered[Len(covered)], rows[it.end_pos + 1])

\* C17 witness: an item of two rows that does not start on the first row,
\* whose node starts after indentation.
C17_Witness ==
    /\ Extracted
    /\ \E k \in 1..Len(ex_items) : \E n \in 1..Len(ex_tree) :
          /\ ex_items[k].end_byte = ex_tree[n].end_byte
          /\ ex_items[k].start_pos = 1
          /\ ex_items[k].end_pos = 2
          /\ ex_items[k].start_byte < ex_tree[n].start_byte

\* C18: count.  The list returned has one ItemDef for each node of the kind
\* the item asks for, in document order, and nothing else: a tree with
\* exactly 2 function definitions and 1 class definition yields exactly 2
\* ItemDefs for the Python item Function.
C18_OnePerNode ==
    Extracted =>
        /\ Len(ex_items) =
              Cardinality(NodesOfKind(ex_tree, WantedKind(ex_item)))
        /\ \A k \in 1..Len(ex_items) :
              LET node == NthOfKind(ex_tree, WantedKind(ex_item), k)
              IN  /\ ex_items[k].end_byte = node.end_byte
                  /\ ex_items[k].start_pos = RowOfByte(ex_source, node.start_byte)
        /\ (/\ ex_item = ProgItem("Python", "Function")
            /\ Cardinality(NodesOfKind(ex_tree, "function_definition")) = 2
            /\ Cardinality(NodesOfKind(ex_tree, "class_definition")) = 1) =>
                Len(ex_items) = 2

\* C18 witness: a tree of a class definition with two function definitions
\* inside it, asked for Python functions, gave two ItemDefs.
C18_Witness ==
    /\ Extracted
    /\ ex_item = ProgItem("Python", "Function")
    /\ Len(ex_tree) = 3
    /\ ex_tree[1].kind = "class_definition"
    /\ ex_tree[2].kind = "function_definition"
    /\ ex_tree[3].kind = "function_definition"
    /\ ex_tree[1].start_byte <= ex_tree[2].start_byte
    /\ ex_tree[3].end_byte <= ex_tree[1].end_byte
    /\ Len(ex_items) = 2

-----------------------------------------------------------------------------
(* Properties of extract_all_items_from_files, checked under SpecExtractAll *)

\* How many times f is listed in fl.
Occurrences(fl, f) == Cardinality({i \in 1..Len(fl) : fl[i] = f})

\* How many of the ItemDefs of l are of the file f.
ItemsOf(l, f) == Cardinality({k \in 1..Len(l) : l[k].filename = f})

\* C19: fail-fast extraction.  When the call has returned Ok, every file of
\* its input list was opened, read, parsed and queried without error and
\* the result holds, for each listing of a file, one ItemDef for every node
\* of the file of the kind asked for.  When the call has returned and any
\* file of the list fails, it has returned an error.
C19_NoFileDropped ==
    /\ xa_result = "Ok" =>
          /\ \A i \in 1..Len(files_in) : outcome[files_in[i]] = "ok"
          /\ \A f \in Files :
                ItemsOf(all_functions, f) =
                    Occurrences(files_in, f) *
                    Cardinality(NodesOfKind(parse(disk[f]), WantedKind(ex_item)))
    /\ (xa_pc = "done" /\ \E i \in 1..Len(files_in) : outcome[files_in[i]] # "ok")
          => xa_result = "Err"

\* C19 witness: f1 was extracted, then f2 could not be parsed: the call
\* returned an error although it had collected items.
C19_Witness ==
    /\ xa_result = "Err"
    /\ files_in = <<"f1", "f2">>
    /\ outcome["f2"] = "parse"
    /\ all_functions # <<>>
    /\ xa_files = <<"f2">>

-----------------------------------------------------------------------------
(* Properties of make_change, checked under SpecPipeline *)

\* apply_changes has touched a file, or has been called at all.
Patching ==
    \/ pc # "idle"
    \/ disk # disk0
    \/ \E f \in Files : reads[f] > 0 \/ writes[f] > 0

\* C13: pipeline ordering.  (a) Once a transformer request has been sent,
\* extraction has returned Ok having visited every file found, and its
\* items are the items make_change works on.  (b) Once apply_changes has
\* been called or any file read or written by it, one request has been sent
\* and one reply received for every extracted item, and the changes are the
\* items paired with their replies, in order.  (c) When discovery or
\* extraction has failed, or make_change has ended without calling
\* apply_changes (the git check or a request failed), every file holds what
\* it held and none was read or written by apply_changes.
C13_PipelineOrder ==
    /\ requests > 0 =>
          /\ xa_pc = "done" /\ xa_result = "Ok" /\ xa_files = <<>>
          /\ functions = all_functions
          /\ \A k \in 1..Len(discovered.files) :
                ItemsOf(functions, path_of(discovered.files[k])) =
                    Cardinality(NodesOfKind(parse(disk0[path_of(discovered.files[k])]),
                                            WantedKind(ex_item)))
    /\ Patching =>
          /\ mc_pc \in {"apply", "done"}
          /\ requests = Len(functions)
          /\ Len(changes) = Len(functions)
          /\ \A k \in 1..Len(changes) :
                changes[k].before = functions[k] /\ changes[k].after \in Replies
    /\ (\/ discovered # NotDiscovered /\ ~discovered.ok
        \/ xa_result = "Err"
        \/ mc_pc = "done" /\ pc = "idle") =>
          /\ ~Patching
          /\ mc_pc = "done" => mc_result \in {"Err", "panic"}

\* C13 witness: two items were extracted from f1, two requests sent and two
\* replies received, and then f1 was rewritten.
C13_Witness ==
    /\ Len(functions) = 2
    /\ requests = 2
    /\ Len(changes) = 2
    /\ writes["f1"] = 1
    /\ disk["f1"] # disk0["f1"]
    /\ mc_result = "Ok"

\* The path p is the path q or one of the directories q is beneath.
SelfOrAncestor(p, q) ==
    /\ p.abs = q.abs
    /\ Len(p.comps) <= Len(q.comps)
    /\ \A i \in 1..Len(p.comps) : p.comps[i] = q.comps[i]

\* The folder, or a directory it is beneath, holds a .git directory.
InRepository == \E p \in git_dirs : SelfOrAncestor(p, folder)

\* make_change has gone past its git check: it has walked the folder, opened
\* a file for extraction, sent a request or called apply_changes.
PastGitCheck ==
    \/ mc_pc \in {"discover", "extract", "transform", "await", "apply"}
    \/ discovered # NotDiscovered
    \/ xa_pc # "idle" \/ files_in # <<>> \/ all_functions # <<>>
    \/ requests > 0
    \/ Patching

\* C24: git fail-safe.  make_change is past its git check only when the
\* target folder or one of its ancestors holds a .git directory; when none
\* does, the call ends with an error straight after the check, the folder
\* never walked, no file read for extraction, no request sent and no file
\* read or written by apply_changes.
C24_GitFailSafe ==
    /\ PastGitCheck => InRepository
    /\ (~InRepository /\ mc_pc # "git") =>
          /\ mc_pc = "done"
          /\ mc_result = "Err"
          /\ disk = disk0

\* C24 witness: a .git directory exists, but not in the folder or above it;
\* make_change has ended with an error.
C24_Witness ==
    /\ git_dirs # {}
    /\ ~InRepository
    /\ mc_pc = "done"
    /\ mc_result = "Err"
    /\ ~PastGitCheck

-----------------------------------------------------------------------------
(* Properties of main, checked under SpecMain *)

\* C25, as claimed: in one turn the loop at line 74 sends at most 3
\* requests, whatever the replies.  Violated by replies that have no choice,
\* and by replies that are ClarificationNeeded followed by anything else:
\* neither increments tries.
C25_AtMostThreeRequests == outer_requests <= 3

\* A request is awaiting its reply.
InFlight == m_pc \in {"await", "clarify_await"}

\* C26: the history is reset per turn.  Whenever main is at its top-level
\* prompt the history is the system prompt alone; the history never holds,
\* and no request ever carries, a message pushed in an earlier turn.
C26_HistoryResetPerTurn ==
    /\ m_pc = "prompt" => messages = <<[role |-> "System", kind |-> "system_prompt", turn |-> 0]>>
    /\ \A i \in 1..Len(messages) :
          messages[i].role = "System" \/ messages[i].turn = turn
    /\ InFlight =>
          /\ sent # <<>>
          /\ sent[1].role = "System"
          /\ \A i \in 2..Len(sent) : sent[i].role = "User" /\ sent[i].turn = turn

\* C26 witness: the first turn ended after three corrections had been pushed,
\* and the first request of the second turn carries the system prompt and
\* the second user message only.
C26_Witness ==
    /\ turn = 2
    /\ turn_end = "tries"
    /\ m_pc = "await"
    /\ outer_requests = 1
    /\ Len(sent) = 2
    /\ sent[2].kind = "user_message" /\ sent[2].turn = 2

\* C27, as claimed: when a turn has ended on a reply that is
\* GoodInstructions, make_change has run to its end.  Violated: the future
\* of make_change was dropped without being awaited and nothing of
\* make_change has run.
C27_PipelineCompleted ==
    turn_end = "good" => (future # "dropped" /\ mc_pc = "done")

-----------------------------------------------------------------------------
(* Vocabulary of the properties of extract_python_code *)

Cleaned == extracted_code # NotCleaned

\* The line starts, after its leading whitespace, with a fence.
Fenced(l) == WsRun(l) < Len(l) /\ l[WsRun(l) + 1] = FENCE

\* The line starts, after its leading whitespace, with a fence and python.
Opens(l) == Fenced(l) /\ WsRun(l) + 1 < Len(l) /\ l[WsRun(l) + 2] = PY

\* The least element of a set of numbers that is not empty.
Least(S) == CHOOSE k \in S : \A j \in S : k <= j

\* The rows of the opening lines of t.
Openings(t) == {k \in 1..NumLines(t) : Opens(Piece(t, k))}

\* The row of the first fenced line of t after row o, one past the last row
\* if there is none.
NextFenced(t, o) ==
    Least({k \in (o + 1)..NumLines(t) : Fenced(Piece(t, k))} \cup {NumLines(t) + 1})

\* The same, for the fenced lines that are not opening lines.
NextBareFence(t, o) ==
    Least({k \in (o + 1)..NumLines(t) :
              Fenced(Piece(t, k)) /\ ~Opens(Piece(t, k))} \cup {NumLines(t) + 1})

RECURSIVE RowsText(_, _, _)
\* The lines of t at the rows from a to b that are in keep, each followed by
\* a line ending.
RowsText(t, rows, keep) ==
    IF rows = <<>> THEN <<>>
    ELSE (IF rows[1] \in keep THEN Piece(t, rows[1]) \o <<NL>> ELSE <<>>)
         \o RowsText(t, Tail(rows), keep)

\* The rows a + 1 .. b - 1, in order.
Between(a, b) == [i \in 1..(b - a - 1) |-> a + i]

-----------------------------------------------------------------------------
(* Properties of extract_python_code, checked under SpecCode *)

\* C30, as claimed: the result is exactly the lines strictly between the
\* first opening line and the next line that starts with a fence, each
\* followed by a line ending, and is None when there is no opening line or
\* there are no such lines.  Violated: a line inside the block that starts
\* with a fence and python does not end the block.
C30_FirstBlockToNextFence ==
    Cleaned =>
        LET o == Least(Openings(input))
            block == Between(o, NextFenced(input, o))
        IN  IF Openings(input) = {} \/ block = <<>>
            THEN ~extracted_code.found
            ELSE /\ extracted_code.found
                 /\ extracted_code.value = RowsText(input, block, 1..NumLines(input))

\* C30, amended: the result is the lines between the first opening line and
\* the next line that starts with a fence but not with a fence and python,
\* the lines that themselves start with a fence and python left out, each
\* followed by a line ending, up to the end of the text if there is no such
\* closing line; it is None when there is no opening line or no line is
\* left.  Nothing before the first opening line or from the closing line on
\* is in the result.
C30_FirstBlockToBareFence ==
    Cleaned =>
        LET o == Least(Openings(input))
            block == Between(o, NextBareFence(input, o))
            kept == RowsText(input, block, (1..NumLines(input)) \ Openings(input))
        IN  IF Openings(input) = {} \/ kept = <<>>
            THEN ~extracted_code.found
            ELSE extracted_code.found /\ extracted_code.value = kept

\* C30 witness: a text of four lines, an indented opening line, code, a
\* second opening line and code, never closed: both lines of code came back.
C30_Witness ==
    /\ Cleaned
    /\ NumLines(input) = 4
    /\ Openings(input) = {1, 3}
    /\ WsRun(Piece(input, 1)) = 1
    /\ extracted_code.found
    /\ extracted_code.value = <<"a", NL, "b", NL>>

-----------------------------------------------------------------------------
(* Properties of process_chat_prompt, checked under SpecLlmFair *)

\* The call has ended: it returned a text, returned the error of a request,
\* or panicked on a reply without content.
LlmEnded == llm_pc \in {"done", "error", "panicked"}

\* The text is what the latest reply holds as code: its content, or the
\* block taken out of it.
AcceptedCode(text) ==
    \/ text = reply_text
    \/ /\ Openings(reply_text) # {}
       /\ text # <<>>
       /\ LET o == Least(Openings(reply_text))
          IN  text = RowsText(reply_text,
                              Between(o, NextBareFence(reply_text, o)),
                              (1..NumLines(reply_text)) \ Openings(reply_text))

\* C21: one call sends at most max_attempts + 1 = 4 requests; a reply from
\* which no code is accepted and after which the call goes on adds one to
\* attempt_count, and when attempt_count is already 3 such a reply makes
\* the call return default_output; a call that returns, returns accepted
\* code or default_output; and, every request being answered, the call
\* ends.
C21_BoundedRetryWithFallback ==
    /\ [](/\ llm_requests <= max_attempts + 1
          /\ attempt_count <= 3
          /\ llm_requests <= attempt_count + 1
          /\ llm_pc = "done" =>
                 \/ AcceptedCode(llm_result.value)
                 \/ llm_result.value = default_output)
    /\ [][llm_pc = "reply" =>
             \/ llm_pc' = "done" /\ AcceptedCode(llm_result'.value)
             \/ /\ attempt_count < 3
                /\ attempt_count' = attempt_count + 1
                /\ llm_pc' = "request"
             \/ /\ attempt_count = 3
                /\ llm_pc' = "done"
                /\ llm_result'.value = default_output]_vars
    /\ <>LlmEnded

\* C21 witness: three replies without accepted code were answered with a
\* further request, the fourth made the call return default_output.
C21_Witness ==
    /\ llm_pc = "done"
    /\ llm_requests = 4
    /\ attempt_count = 3
    /\ Len(llm_messages) = 3
    /\ llm_result = Some(default_output)

-----------------------------------------------------------------------------
(* Vocabulary of the properties of the lookup *)

Looked == looked_up # NotLookedUp

\* The kinds of item each language is said to have.
ListedKinds ==
    [l \in {"Python", "Rust"} |->
        IF l = "Python"
        THEN {"Function", "Class", "Method", "Decorator", "Generator",
              "Comprehension"}
        ELSE {"Function", "Struct", "Enum", "Trait", "Impl", "Macro", "Const",
              "Static", "TypeAlias"}]

Listed(l, k) == l \in DOMAIN ListedKinds /\ k \in ListedKinds[l]

\* The syntax node of each kind of item the program has.
NodeKindOf ==
    <<"Python", "Function">> :> "function_definition"
    @@ <<"Python", "Class">> :> "class_definition"
    @@ <<"Rust", "Function">> :> "function_item"
    @@ <<"Rust", "Struct">> :> "struct_item"
    @@ <<"Rust", "Enum">> :> "enum_item"

GrammarOf == "Python" :> "tree_sitter_python" @@ "Rust" :> "tree_sitter_rust"

-----------------------------------------------------------------------------
(* Properties of the lookup, checked under SpecRegistry *)

\* C20, as stated: the lookup succeeds, with the language's grammar and a
\* pattern, for exactly the kinds Python{Function, Class, Method, Decorator,
\* Generator, Comprehension} and Rust{Function, Struct, Enum, Trait, Impl,
\* Macro, Const, Static, TypeAlias}, and is an error for anything else.
\* Violated: Python.Method, for one, is not a variant and is rejected.
C20_TotalOverListedKinds ==
    Looked =>
        IF Listed(rq_lang, rq_kind)
        THEN /\ looked_up.ok
             /\ looked_up.grammar = GrammarOf[rq_lang]
             /\ looked_up.pattern # NoPattern
        ELSE ~looked_up.ok

\* C20, amended: the lookup is total over Python{Function, Class} and
\* Rust{Function, Struct, Enum}: for each of these it returns the language's
\* grammar and the one-capture pattern of the kind's syntax node, and every
\* other (language, kind) is rejected with an error, no grammar and no
\* pattern being returned.
C20_TotalOverVariants ==
    Looked =>
        IF <<rq_lang, rq_kind>> \in DOMAIN NodeKindOf
        THEN /\ looked_up.ok
             /\ looked_up.grammar = GrammarOf[rq_lang]
             /\ looked_up.pattern =
                    [node_kind |-> NodeKindOf[<<rq_lang, rq_kind>>],
                     capture |-> "item"]
        ELSE /\ ~looked_up.ok
             /\ looked_up.grammar \notin {GrammarOf[l] : l \in DOMAIN GrammarOf}
             /\ looked_up.pattern.capture # "item"

\* A Rust enum has been looked up and the Rust grammar returned.
C20_Witness ==
    /\ Looked
    /\ rq_lang = "Rust"
    /\ rq_kind = "Enum"
    /\ looked_up.ok
    /\ looked_up.grammar = "tree_sitter_rust"

-----------------------------------------------------------------------------
(* Properties of extraction followed by apply_changes, checked under       *)
(* SpecRoundTrip                                                           *)

\* C3 as claimed: round trip.  When the change whose after text is the
\* extracted item's definition has been applied, the file is what it was,
\* character for character.
C3_RoundTrip ==
    result = "Ok" => disk["f1"] = disk0["f1"]

====
